---- MODULE Spec2Model ----
(***************************************************************************)
(* Model of the container-loading planner: the packing engine              *)
(* (utils/packingAlgorithm: free-space management, placement scoring,      *)
(* the seven-trial battery, staging), the interactive drag path of         *)
(* components/CargoBox and the item state kept by App.                     *)
(*                                                                         *)
(* Lengths are integer millimetres, as in the manifest and the container   *)
(* specification.  Axes: length <-> x, height <-> y, width <-> z.          *)
(***************************************************************************)
EXTENDS Integers, Sequences, FiniteSets, TLC

VARIABLES
  container,      \* App: the container (Dimensions)
  manifest,       \* App: the imported rows the item list was created from
  items,          \* App: the item list (useState<CargoItem[]>)
  src,            \* which operation produced `items`: "staging", "autoPack", "drag"
  pc,             \* "idle", "trial" (inside autoPack), "drag" (pointer captured), "snap", "snapped"
  packInput,      \* autoPack: the `items` argument of the running / last call
  packInputSrc,   \* the operation that had produced that argument
  trial,          \* autoPack: index of the running trial in the battery (1..7)
  itemsToPack,    \* runPackingTrial: the sorted item list
  k,              \* runPackingTrial: index of the next item of the for-loop
  freeSpaces,     \* runPackingTrial: the free-space list
  placedItems,    \* runPackingTrial: the output list (placed and failed)
  totalPackedVol, \* runPackingTrial: the accumulated packed volume
  bestResult,     \* autoPack: the best TrialResult so far
  results,        \* autoPack: the TrialResult of every finished trial, in battery order
  dragId,         \* CargoBox: id of the item being dragged (0: none)
  groupPos,       \* CargoBox: corner position shown by groupRef during a drag
  drags,          \* number of drags completed
  snapIn,         \* arguments of a getSnappingPosition call
  snapOut,        \* its result
  callIn,         \* arguments of a call of one of the other functions on its own
  callOut         \* its result

vars == <<container, manifest, items, src, pc, packInput, packInputSrc, trial, itemsToPack, k,
          freeSpaces, placedItems, totalPackedVol, bestResult,
          results, dragId, groupPos, drags, snapIn, snapOut, callIn, callOut>>

----------------------------------------------------------------------------
(* Bounds of the model *)

\* longest manifest fed to the packing battery
MaxItems == 3
\* longest manifest of the interactive model
MaxDragItems == 2
\* number of drags followed
MaxDrags == 2

----------------------------------------------------------------------------
(* Helpers *)

Abs(v) == IF v < 0 THEN 0 - v ELSE v

Max2(a, b) == IF a > b THEN a ELSE b

Max3(a, b, c) == Max2(a, Max2(b, c))

Volume(d) == d.length * d.width * d.height

\* Array.prototype.filter
Filter(s, Test(_)) == SelectSeq(s, Test)

\* Array.prototype.sort: stable; Cmp(a, b) > 0 puts b before a
Sort(s, Cmp(_, _)) ==
  LET RECURSIVE InsertSorted(_, _)
      InsertSorted(sorted, e) ==
        IF sorted = <<>> THEN <<e>>
        ELSE LET last == sorted[Len(sorted)]
             IN IF Cmp(last, e) > 0
                THEN Append(InsertSorted(SubSeq(sorted, 1, Len(sorted) - 1), e), last)
                ELSE Append(sorted, e)
      RECURSIVE SortFrom(_, _)
      SortFrom(i, acc) ==
        IF i > Len(s) THEN acc
        ELSE SortFrom(i + 1, InsertSorted(acc, s[i]))
  IN SortFrom(1, <<>>)

----------------------------------------------------------------------------
(* Geometry *)

boxIntersect(a, b) ==
  /\ a.x < b.x + b.l
  /\ a.x + a.l > b.x
  /\ a.y < b.y + b.h
  /\ a.y + a.h > b.y
  /\ a.z < b.z + b.w
  /\ a.z + a.w > b.z

\* a variant of contains that wants the inner box clear of the outer's faces
contains_Strict(outer, inner) ==
  /\ outer.x < inner.x
  /\ outer.y < inner.y
  /\ outer.z < inner.z
  /\ outer.x + outer.l > inner.x + inner.l
  /\ outer.y + outer.h > inner.y + inner.h
  /\ outer.z + outer.w > inner.z + inner.w

contains(outer, inner) ==
  /\ outer.x <= inner.x
  /\ outer.y <= inner.y
  /\ outer.z <= inner.z
  /\ outer.x + outer.l >= inner.x + inner.l
  /\ outer.y + outer.h >= inner.y + inner.h
  /\ outer.z + outer.w >= inner.z + inner.w

----------------------------------------------------------------------------
(* Collision detection *)

epsilon == 1

\* the AABB test of the loop body of checkCollisionWithCoords
Overlap(target, other) ==
  LET ix1 == target.x
      iy1 == target.y
      iz1 == target.z
      ix2 == ix1 + target.l
      iy2 == iy1 + target.h
      iz2 == iz1 + target.w
      ox1 == other.position[1]
      oy1 == other.position[2]
      oz1 == other.position[3]
      ox2 == ox1 + other.dimensions.length
      oy2 == oy1 + other.dimensions.height
      oz2 == oz1 + other.dimensions.width
  IN /\ ix1 < ox2 - epsilon /\ ix2 > ox1 + epsilon
     /\ iy1 < oy2 - epsilon /\ iy2 > oy1 + epsilon
     /\ iz1 < oz2 - epsilon /\ iz2 > oz1 + epsilon

\* a variant of checkCollisionWithCoords that also rejects a box reaching past
\* the container's far faces
checkCollisionWithCoords_UpperBounds(target, others, cont) ==
  \/ target.x < 0 \/ target.y < 0 \/ target.z < 0
  \/ target.x + target.l > cont.length
  \/ target.y + target.h > cont.height
  \/ target.z + target.w > cont.width
  \/ \E j \in 1..Len(others) :
        /\ others[j].id # target.id
        /\ Overlap(target, others[j])

checkCollisionWithCoords(target, others, cont) ==
  \/ target.x < 0 \/ target.y < 0 \/ target.z < 0
  \/ \E j \in 1..Len(others) :
        /\ others[j].id # target.id
        /\ Overlap(target, others[j])

checkCollision(item, others, cont) ==
  checkCollisionWithCoords(
    [x |-> item.position[1], y |-> item.position[2], z |-> item.position[3],
     l |-> item.dimensions.length, h |-> item.dimensions.height,
     w |-> item.dimensions.width, id |-> item.id],
    others, cont)

----------------------------------------------------------------------------
(* Magnetic snapping *)

\* a variant of SnapToOther whose x rules all test the candidate's x instead of
\* the x the earlier rules have set
SnapToOther_FromCandidate(pos, dims, other, threshold) ==
  LET ox == other.position[1]
      oy == other.position[2]
      oz == other.position[3]
      ol == other.dimensions.length
      oh == other.dimensions.height
      ow == other.dimensions.width
      x1 == IF Abs(pos[1] - (ox + ol)) < threshold THEN ox + ol ELSE pos[1]
      x2 == IF Abs((pos[1] + dims.length) - ox) < threshold THEN ox - dims.length ELSE x1
      x3 == IF Abs(pos[1] - ox) < threshold THEN ox ELSE x2
      x4 == IF Abs((pos[1] + dims.length) - (ox + ol)) < threshold
            THEN ox + ol - dims.length ELSE x3
      y1 == IF Abs(pos[2] - (oy + oh)) < threshold THEN oy + oh ELSE pos[2]
      y2 == IF Abs((y1 + dims.height) - oy) < threshold THEN oy - dims.height ELSE y1
      z1 == IF Abs(pos[3] - (oz + ow)) < threshold THEN oz + ow ELSE pos[3]
      z2 == IF Abs((z1 + dims.width) - oz) < threshold THEN oz - dims.width ELSE z1
      z3 == IF Abs(z2 - oz) < threshold THEN oz ELSE z2
      z4 == IF Abs((z3 + dims.width) - (oz + ow)) < threshold
            THEN oz + ow - dims.width ELSE z3
  IN <<x4, y2, z4>>

\* a variant of SnapToOther whose z rules take the item's length for its width
SnapToOther_ZUsesLength(pos, dims, other, threshold) ==
  LET ox == other.position[1]
      oy == other.position[2]
      oz == other.position[3]
      ol == other.dimensions.length
      oh == other.dimensions.height
      ow == other.dimensions.width
      x1 == IF Abs(pos[1] - (ox + ol)) < threshold THEN ox + ol ELSE pos[1]
      x2 == IF Abs((x1 + dims.length) - ox) < threshold THEN ox - dims.length ELSE x1
      x3 == IF Abs(x2 - ox) < threshold THEN ox ELSE x2
      x4 == IF Abs((x3 + dims.length) - (ox + ol)) < threshold
            THEN ox + ol - dims.length ELSE x3
      y1 == IF Abs(pos[2] - (oy + oh)) < threshold THEN oy + oh ELSE pos[2]
      y2 == IF Abs((y1 + dims.height) - oy) < threshold THEN oy - dims.height ELSE y1
      z1 == IF Abs(pos[3] - (oz + ow)) < threshold THEN oz + ow ELSE pos[3]
      z2 == IF Abs((z1 + dims.length) - oz) < threshold THEN oz - dims.length ELSE z1
      z3 == IF Abs(z2 - oz) < threshold THEN oz ELSE z2
      z4 == IF Abs((z3 + dims.length) - (oz + ow)) < threshold
            THEN oz + ow - dims.length ELSE z3
  IN <<x4, y2, z4>>

\* one neighbour's part of the loop of getSnappingPosition
SnapToOther(pos, dims, other, threshold) ==
  LET ox == other.position[1]
      oy == other.position[2]
      oz == other.position[3]
      ol == other.dimensions.length
      oh == other.dimensions.height
      ow == other.dimensions.width
      x1 == IF Abs(pos[1] - (ox + ol)) < threshold THEN ox + ol ELSE pos[1]
      x2 == IF Abs((x1 + dims.length) - ox) < threshold THEN ox - dims.length ELSE x1
      x3 == IF Abs(x2 - ox) < threshold THEN ox ELSE x2
      x4 == IF Abs((x3 + dims.length) - (ox + ol)) < threshold
            THEN ox + ol - dims.length ELSE x3
      y1 == IF Abs(pos[2] - (oy + oh)) < threshold THEN oy + oh ELSE pos[2]
      y2 == IF Abs((y1 + dims.height) - oy) < threshold THEN oy - dims.height ELSE y1
      z1 == IF Abs(pos[3] - (oz + ow)) < threshold THEN oz + ow ELSE pos[3]
      z2 == IF Abs((z1 + dims.width) - oz) < threshold THEN oz - dims.width ELSE z1
      z3 == IF Abs(z2 - oz) < threshold THEN oz ELSE z2
      z4 == IF Abs((z3 + dims.width) - (oz + ow)) < threshold
            THEN oz + ow - dims.width ELSE z3
  IN <<x4, y2, z4>>

\* a variant of SnapLoop that does not skip the dragged item itself
RECURSIVE SnapLoop_SelfIncluded(_, _, _, _, _, _)
SnapLoop_SelfIncluded(pos, dims, others, id, threshold, j) ==
  IF j > Len(others) THEN pos
  ELSE SnapLoop_SelfIncluded(SnapToOther(pos, dims, others[j], threshold),
                             dims, others, id, threshold, j + 1)

RECURSIVE SnapLoop(_, _, _, _, _, _)
SnapLoop(pos, dims, others, id, threshold, j) ==
  IF j > Len(others) THEN pos
  ELSE IF others[j].id = id
       THEN SnapLoop(pos, dims, others, id, threshold, j + 1)
       ELSE SnapLoop(SnapToOther(pos, dims, others[j], threshold),
                     dims, others, id, threshold, j + 1)

getSnappingPosition(currentPos, dims, others, id, threshold) ==
  LET newX == IF Abs(currentPos[1]) < threshold THEN 0 ELSE currentPos[1]
      newY == IF Abs(currentPos[2]) < threshold THEN 0 ELSE currentPos[2]
      newZ == IF Abs(currentPos[3]) < threshold THEN 0 ELSE currentPos[3]
  IN SnapLoop(<<newX, newY, newZ>>, dims, others, id, threshold, 1)

----------------------------------------------------------------------------
(* Import and staging *)

\* length of `item-${rowIdx}-${i}-${Date.now()}-${random}`: the row index, the
\* copy index and the random suffix have a variable number of characters
\* and the timestamp has 13; a row of the model carries the resulting length.
createCargoGroups(rows) ==
  [i \in 1..Len(rows) |->
     [id |-> i, idLen |-> rows[i].idLen,
      dimensions |-> [length |-> rows[i].length, width |-> rows[i].width,
                      height |-> rows[i].height],
      position |-> <<0, 0, 0>>,
      isValid |-> TRUE]]

spacing == 100

stagingWidthLimit == 15000

stagingZStart(cont) == cont.width + 1500

\* a variant of StagingFrom whose row depth is the width of the row's last
\* item instead of the largest one
RECURSIVE StagingFrom_LastWidth(_, _, _, _, _, _)
StagingFrom_LastWidth(its, i, currentX, currentZ, maxZInRow, out) ==
  IF i > Len(its) THEN out
  ELSE LET item == its[i]
           wrap == currentX + item.dimensions.length > stagingWidthLimit
           cx == IF wrap THEN 0 ELSE currentX
           cz == IF wrap THEN currentZ + maxZInRow + spacing ELSE currentZ
       IN StagingFrom_LastWidth(its, i + 1, cx + item.dimensions.length + spacing, cz,
                                item.dimensions.width,
                                Append(out, [item EXCEPT !.position = <<cx, 0, cz>>,
                                                         !.isValid = TRUE]))

RECURSIVE StagingFrom(_, _, _, _, _, _)
StagingFrom(its, i, currentX, currentZ, maxZInRow, out) ==
  IF i > Len(its) THEN out
  ELSE LET item == its[i]
           wrap == currentX + item.dimensions.length > stagingWidthLimit
           cx == IF wrap THEN 0 ELSE currentX
           cz == IF wrap THEN currentZ + maxZInRow + spacing ELSE currentZ
           mz == IF wrap THEN 0 ELSE maxZInRow
       IN StagingFrom(its, i + 1, cx + item.dimensions.length + spacing, cz,
                      Max2(mz, item.dimensions.width),
                      Append(out, [item EXCEPT !.position = <<cx, 0, cz>>,
                                               !.isValid = TRUE]))

arrangeStaging(its, cont) == StagingFrom(its, 1, 0, stagingZStart(cont), 0, <<>>)

----------------------------------------------------------------------------
(* Sort strategies *)

\* Math.sin(n) * 0.2 in thousandths, for the arguments id.length + seed that
\* occur (identifier lengths 28 and 29, seeds 1, 42, 123, 999)
NoiseMilli(n) ==
  CASE n = 29 -> 0 - 133
    [] n = 30 -> 0 - 198
    [] n = 70 -> 155
    [] n = 71 -> 190
    [] n = 151 -> 40
    [] n = 152 -> 187
    [] n = 1027 -> 59
    [] n = 1028 -> 0 - 129

\* vol * (1 + noise) in thousandths, as <<thousands, units>>: the value is
\* 1000 * thousands + units (kept apart so that no product leaves 32 bits)
WeightedVolume(item, seed) ==
  LET vol == Volume(item.dimensions)
      f == 1000 + NoiseMilli(item.idLen + seed)
  IN <<(vol \div 1000) * f, (vol % 1000) * f>>

\* The comparator's `score`: sign |-> its sign (-1, 0, 1), near |-> |score| < 0.1
SortScore(a, b, strategy, seed) ==
  LET volA == Volume(a.dimensions)
      volB == Volume(b.dimensions)
      areaA == a.dimensions.length * a.dimensions.width
      areaB == b.dimensions.length * b.dimensions.width
      maxDimA == Max3(a.dimensions.length, a.dimensions.width, a.dimensions.height)
      maxDimB == Max3(b.dimensions.length, b.dimensions.width, b.dimensions.height)
      Sign(v) == IF v > 0 THEN 1 ELSE IF v < 0 THEN 0 - 1 ELSE 0
      Exact(v) == [sign |-> Sign(v), near |-> v = 0]
      wA == WeightedVolume(a, seed)
      wB == WeightedVolume(b, seed)
      dThousands == wB[1] - wA[1]
      milli == 1000 * dThousands + (wB[2] - wA[2])
  IN CASE strategy = "VOLUME" -> Exact(volB - volA)
       [] strategy = "FOOTPRINT" ->
            IF areaA # areaB THEN Exact(areaB - areaA) ELSE Exact(volB - volA)
       [] strategy = "MAX_DIM" ->
            IF maxDimA # maxDimB THEN Exact(maxDimB - maxDimA) ELSE Exact(volB - volA)
       [] strategy = "RANDOM_WEIGHTED" ->
            IF dThousands > 2000 THEN [sign |-> 1, near |-> FALSE]
            ELSE IF dThousands < 0 - 2000 THEN [sign |-> 0 - 1, near |-> FALSE]
            ELSE [sign |-> Sign(milli), near |-> Abs(milli) < 100]

\* a variant of compareItems without the height rule for near scores
compareItems_NoHeightRule(a, b, strategy, seed) ==
  SortScore(a, b, strategy, seed).sign

\* the comparator handed to sort
compareItems(a, b, strategy, seed) ==
  LET score == SortScore(a, b, strategy, seed)
  IN IF score.near THEN b.dimensions.height - a.dimensions.height
     ELSE score.sign

sortItems(its, strategy, seed) ==
  Sort(its, LAMBDA a, b : compareItems(a, b, strategy, seed))

----------------------------------------------------------------------------
(* Free-space manager *)

MIN_DIM == 50

\* a variant of initialFreeSpaces that takes the container's width for its
\* height and its height for its width
initialFreeSpaces_AxesSwapped(cont) ==
  << [x |-> 0, y |-> 0, z |-> 0,
      l |-> cont.length, h |-> cont.width, w |-> cont.height] >>

initialFreeSpaces(cont) ==
  << [x |-> 0, y |-> 0, z |-> 0,
      l |-> cont.length, h |-> cont.height, w |-> cont.width] >>

\* a variant of splitSpace whose top fragment keeps the floor of the box it
\* was cut from
splitSpace_TopFromFloor(fs, placedBox) ==
  IF boxIntersect(fs, placedBox)
  THEN (IF placedBox.x + placedBox.l < fs.x + fs.l
        THEN << [fs EXCEPT !.x = Max2(fs.x, placedBox.x + placedBox.l),
                           !.l = (fs.x + fs.l) - Max2(fs.x, placedBox.x + placedBox.l)] >>
        ELSE <<>>)
       \o (IF placedBox.x > fs.x
           THEN << [fs EXCEPT !.l = placedBox.x - fs.x] >>
           ELSE <<>>)
       \o (IF placedBox.y + placedBox.h < fs.y + fs.h
           THEN << [fs EXCEPT !.h = (fs.y + fs.h) - Max2(fs.y, placedBox.y + placedBox.h)] >>
           ELSE <<>>)
       \o (IF placedBox.z + placedBox.w < fs.z + fs.w
           THEN << [fs EXCEPT !.z = Max2(fs.z, placedBox.z + placedBox.w),
                              !.w = (fs.z + fs.w) - Max2(fs.z, placedBox.z + placedBox.w)] >>
           ELSE <<>>)
       \o (IF placedBox.z > fs.z
           THEN << [fs EXCEPT !.w = placedBox.z - fs.z] >>
           ELSE <<>>)
  ELSE << fs >>

\* a variant of splitSpace that leaves out the fragment behind the placed box
splitSpace_NoBack(fs, placedBox) ==
  IF boxIntersect(fs, placedBox)
  THEN (IF placedBox.x + placedBox.l < fs.x + fs.l
        THEN << [fs EXCEPT !.x = Max2(fs.x, placedBox.x + placedBox.l),
                           !.l = (fs.x + fs.l) - Max2(fs.x, placedBox.x + placedBox.l)] >>
        ELSE <<>>)
       \o (IF placedBox.x > fs.x
           THEN << [fs EXCEPT !.l = placedBox.x - fs.x] >>
           ELSE <<>>)
       \o (IF placedBox.y + placedBox.h < fs.y + fs.h
           THEN << [fs EXCEPT !.y = Max2(fs.y, placedBox.y + placedBox.h),
                              !.h = (fs.y + fs.h) - Max2(fs.y, placedBox.y + placedBox.h)] >>
           ELSE <<>>)
       \o (IF placedBox.z + placedBox.w < fs.z + fs.w
           THEN << [fs EXCEPT !.z = Max2(fs.z, placedBox.z + placedBox.w),
                              !.w = (fs.z + fs.w) - Max2(fs.z, placedBox.z + placedBox.w)] >>
           ELSE <<>>)
  ELSE << fs >>

\* the fragments one free box leaves around the placed box, in the order pushed
splitSpace(fs, placedBox) ==
  IF boxIntersect(fs, placedBox)
  THEN (IF placedBox.x + placedBox.l < fs.x + fs.l
        THEN << [fs EXCEPT !.x = Max2(fs.x, placedBox.x + placedBox.l),
                           !.l = (fs.x + fs.l) - Max2(fs.x, placedBox.x + placedBox.l)] >>
        ELSE <<>>)
       \o (IF placedBox.x > fs.x
           THEN << [fs EXCEPT !.l = placedBox.x - fs.x] >>
           ELSE <<>>)
       \o (IF placedBox.y + placedBox.h < fs.y + fs.h
           THEN << [fs EXCEPT !.y = Max2(fs.y, placedBox.y + placedBox.h),
                              !.h = (fs.y + fs.h) - Max2(fs.y, placedBox.y + placedBox.h)] >>
           ELSE <<>>)
       \o (IF placedBox.z + placedBox.w < fs.z + fs.w
           THEN << [fs EXCEPT !.z = Max2(fs.z, placedBox.z + placedBox.w),
                              !.w = (fs.z + fs.w) - Max2(fs.z, placedBox.z + placedBox.w)] >>
           ELSE <<>>)
       \o (IF placedBox.z > fs.z
           THEN << [fs EXCEPT !.w = placedBox.z - fs.z] >>
           ELSE <<>>)
  ELSE << fs >>

RECURSIVE splitSpaces(_, _, _)
splitSpaces(spaces, placedBox, i) ==
  IF i > Len(spaces) THEN <<>>
  ELSE splitSpace(spaces[i], placedBox) \o splitSpaces(spaces, placedBox, i + 1)

compareSpaces(a, b) ==
  IF a.y - b.y # 0 THEN a.y - b.y
  ELSE IF a.z - b.z # 0 THEN a.z - b.z
  ELSE a.x - b.x

\* a variant of cleanupSpaces that drops a box as soon as another one
\* intersects it
cleanupSpaces_DropsIntersecting(spaces) ==
  LET sorted == Sort(spaces, compareSpaces)
      BigEnough(s) == s.l >= MIN_DIM /\ s.w >= MIN_DIM /\ s.h >= MIN_DIM
      validSizeSpaces == SelectSeq(sorted, BigEnough)
      NotContained(i) ==
        ~ \E j \in 1..Len(validSizeSpaces) :
              j # i /\ boxIntersect(validSizeSpaces[j], validSizeSpaces[i])
      kept == SelectSeq([i \in 1..Len(validSizeSpaces) |-> i], NotContained)
  IN [n \in 1..Len(kept) |-> validSizeSpaces[kept[n]]]

cleanupSpaces(spaces) ==
  LET sorted == Sort(spaces, compareSpaces)
      BigEnough(s) == s.l >= MIN_DIM /\ s.w >= MIN_DIM /\ s.h >= MIN_DIM
      validSizeSpaces == SelectSeq(sorted, BigEnough)
      NotContained(i) ==
        ~ \E j \in 1..Len(validSizeSpaces) :
              j # i /\ contains(validSizeSpaces[j], validSizeSpaces[i])
      kept == SelectSeq([i \in 1..Len(validSizeSpaces) |-> i], NotContained)
  IN [n \in 1..Len(kept) |-> validSizeSpaces[kept[n]]]

----------------------------------------------------------------------------
(* Placement scorer *)

spaceScore(space) == (space.y * 1000000) + (space.z * 1000) + space.x

\* a variant of fitsUnrotated that forgets the height
fitsUnrotated_IgnoresHeight(item, space) ==
  /\ item.dimensions.length <= space.l
  /\ item.dimensions.width <= space.w

fitsUnrotated(item, space) ==
  /\ item.dimensions.length <= space.l
  /\ item.dimensions.height <= space.h
  /\ item.dimensions.width <= space.w

\* a variant of fitsRotated that compares the extents without exchanging them
fitsRotated_Unswapped(item, space) ==
  /\ item.dimensions.length # item.dimensions.width
  /\ item.dimensions.length <= space.l
  /\ item.dimensions.height <= space.h
  /\ item.dimensions.width <= space.w

fitsRotated(item, space) ==
  /\ item.dimensions.length # item.dimensions.width
  /\ item.dimensions.width <= space.l
  /\ item.dimensions.height <= space.h
  /\ item.dimensions.length <= space.w

\* bestSpaceIndex 0 stands for the code's -1 (and bestScore for Infinity)
noBest == [bestSpaceIndex |-> 0, bestRotation |-> FALSE, bestScore |-> 0]

\* a variant of improves in which an equal score replaces the best so far
improves_LastWinsTies(score, best) == best.bestSpaceIndex = 0 \/ score <= best.bestScore

improves(score, best) == best.bestSpaceIndex = 0 \/ score < best.bestScore

\* a variant of scanSpaces in which the rotated orientation wins a tie of scores
RECURSIVE scanSpaces_RotatedWinsTies(_, _, _, _)
scanSpaces_RotatedWinsTies(item, spaces, i, best) ==
  IF i > Len(spaces) THEN best
  ELSE LET space == spaces[i]
           score == spaceScore(space)
           afterA == IF fitsUnrotated(item, space) /\ improves(score, best)
                     THEN [bestSpaceIndex |-> i, bestRotation |-> FALSE,
                           bestScore |-> score]
                     ELSE best
           afterB == IF fitsRotated(item, space)
                        /\ (improves(score, afterA) \/ score = afterA.bestScore)
                     THEN [bestSpaceIndex |-> i, bestRotation |-> TRUE,
                           bestScore |-> score]
                     ELSE afterA
       IN scanSpaces_RotatedWinsTies(item, spaces, i + 1, afterB)

RECURSIVE scanSpaces(_, _, _, _)
scanSpaces(item, spaces, i, best) ==
  IF i > Len(spaces) THEN best
  ELSE LET space == spaces[i]
           score == spaceScore(space)
           afterA == IF fitsUnrotated(item, space) /\ improves(score, best)
                     THEN [bestSpaceIndex |-> i, bestRotation |-> FALSE,
                           bestScore |-> score]
                     ELSE best
           afterB == IF fitsRotated(item, space) /\ improves(score, afterA)
                     THEN [bestSpaceIndex |-> i, bestRotation |-> TRUE,
                           bestScore |-> score]
                     ELSE afterA
       IN scanSpaces(item, spaces, i + 1, afterB)

findBestSpace(item, spaces) == scanSpaces(item, spaces, 1, noBest)

----------------------------------------------------------------------------
(* Trial runner and multi-start orchestrator *)

battery ==
  << [strategy |-> "VOLUME", seed |-> 0],
     [strategy |-> "FOOTPRINT", seed |-> 0],
     [strategy |-> "MAX_DIM", seed |-> 0],
     [strategy |-> "RANDOM_WEIGHTED", seed |-> 1],
     [strategy |-> "RANDOM_WEIGHTED", seed |-> 42],
     [strategy |-> "RANDOM_WEIGHTED", seed |-> 123],
     [strategy |-> "RANDOM_WEIGHTED", seed |-> 999] >>

\* bestResult = null
noResult == [items |-> <<>>, packedVolume |-> 0, packedCount |-> 0, isNull |-> TRUE]

IsValid(item) == item.isValid

IsInvalid(item) == ~ item.isValid

\* the footprint an item takes in the winning orientation
\* a variant of placedDimensions that keeps the footprint as it came
placedDimensions_NeverSwapped(item, rotation) == item.dimensions

placedDimensions(item, rotation) ==
  IF rotation
  THEN [item.dimensions EXCEPT !.length = item.dimensions.width,
                               !.width = item.dimensions.length]
  ELSE item.dimensions

placedItem(item, space, rotation) ==
  [item EXCEPT !.dimensions = placedDimensions(item, rotation),
               !.position = <<space.x, space.y, space.z>>,
               !.isValid = TRUE]

\* a variant of placedBoxOf that carves the unrotated footprint out of the
\* free space whatever the orientation
placedBoxOf_Unrotated(item, space, rotation) ==
  [x |-> space.x, y |-> space.y, z |-> space.z,
   l |-> item.dimensions.length,
   h |-> item.dimensions.height,
   w |-> item.dimensions.width]

placedBoxOf(item, space, rotation) ==
  [x |-> space.x, y |-> space.y, z |-> space.z,
   l |-> placedDimensions(item, rotation).length,
   h |-> item.dimensions.height,
   w |-> placedDimensions(item, rotation).width]

\* a variant of failedItem that leaves the valid flag as it was
failedItem_FlagUntouched(item) ==
  [item EXCEPT !.position = <<0, 0 - 9999, 0>>]

failedItem(item) ==
  [item EXCEPT !.position = <<0, 0 - 9999, 0>>, !.isValid = FALSE]

\* a variant of trialResult that counts every item of the output as packed
trialResult_CountsAll(placed, vol) ==
  [items |-> placed, packedVolume |-> vol,
   packedCount |-> Len(placed), isNull |-> FALSE]

trialResult(placed, vol) ==
  [items |-> placed, packedVolume |-> vol,
   packedCount |-> Len(Filter(placed, IsValid)), isNull |-> FALSE]

\* a variant of betterResult in which a later trial wins a tie
betterResult_LastWinsTies(best, result) ==
  IF best.isNull \/ result.packedVolume >= best.packedVolume THEN result ELSE best

\* if (!bestResult || result.packedVolume > bestResult.packedVolume)
betterResult(best, result) ==
  IF best.isNull \/ result.packedVolume > best.packedVolume THEN result ELSE best

\* a variant of autoPackOutput that returns the placed items only
autoPackOutput_PlacedOnly(best, cont) == Filter(best.items, IsValid)

\* a variant of autoPackOutput that returns the failed items as the trial
\* left them
autoPackOutput_FailedAsIs(best, cont) ==
  Filter(best.items, IsValid) \o Filter(best.items, IsInvalid)

\* the tail of autoPack: placed items, then the failed ones re-staged
autoPackOutput(best, cont) ==
  Filter(best.items, IsValid) \o arrangeStaging(Filter(best.items, IsInvalid), cont)

\* the body of the item loop, on the trial's local state
packItem(st, item) ==
  LET best == findBestSpace(item, st.freeSpaces)
  IN IF best.bestSpaceIndex # 0
     THEN LET space == st.freeSpaces[best.bestSpaceIndex]
              newItem == placedItem(item, space, best.bestRotation)
              placedBox == placedBoxOf(item, space, best.bestRotation)
          IN [freeSpaces |-> cleanupSpaces(splitSpaces(st.freeSpaces, placedBox, 1)),
              placedItems |-> Append(st.placedItems, newItem),
              totalPackedVol |-> st.totalPackedVol + Volume(newItem.dimensions)]
     ELSE [st EXCEPT !.placedItems = Append(st.placedItems, failedItem(item))]

RECURSIVE packFrom(_, _, _)
packFrom(sorted, i, st) ==
  IF i > Len(sorted) THEN st
  ELSE packFrom(sorted, i + 1, packItem(st, sorted[i]))

runPackingTrial(its, cont, strategy, seed) ==
  LET st == packFrom(sortItems(its, strategy, seed), 1,
                     [freeSpaces |-> initialFreeSpaces(cont),
                      placedItems |-> <<>>, totalPackedVol |-> 0])
  IN trialResult(st.placedItems, st.totalPackedVol)

RECURSIVE runBattery(_, _, _, _)
runBattery(its, cont, t, best) ==
  IF t > Len(battery) THEN best
  ELSE runBattery(its, cont, t + 1,
                  betterResult(best, runPackingTrial(its, cont, battery[t].strategy,
                                                     battery[t].seed)))

autoPack(its, cont) == autoPackOutput(runBattery(its, cont, 1, noResult), cont)

\* the trial's local state, as the variables hold it
trialState ==
  [freeSpaces |-> freeSpaces, placedItems |-> placedItems,
   totalPackedVol |-> totalPackedVol]

\* a variant of BeginTrial in which the free-space list is shared by the
\* trials instead of being created by each
BeginTrial_SharedFreeSpaces(t, input) ==
  /\ trial' = t
  /\ itemsToPack' = sortItems(input, battery[t].strategy, battery[t].seed)
  /\ k' = 1
  /\ freeSpaces' = IF t = 1 THEN initialFreeSpaces(container) ELSE freeSpaces
  /\ placedItems' = <<>>
  /\ totalPackedVol' = 0

\* the entry of runPackingTrial for battery[t]
BeginTrial(t, input) ==
  /\ trial' = t
  /\ itemsToPack' = sortItems(input, battery[t].strategy, battery[t].seed)
  /\ k' = 1
  /\ freeSpaces' = initialFreeSpaces(container)
  /\ placedItems' = <<>>
  /\ totalPackedVol' = 0

\* the "auto pack" button: autoPack(items, container) starts its first trial
AutoPackClick ==
  /\ pc = "idle"
  /\ pc' = "trial"
  /\ packInput' = items
  /\ packInputSrc' = src
  /\ bestResult' = noResult
  /\ results' = <<>>
  /\ BeginTrial(1, items)
  /\ UNCHANGED <<container, manifest, items, src, dragId, groupPos, drags,
                 snapIn, snapOut, callIn, callOut>>

\* one iteration of the item loop that finds a region
PlaceSuccess ==
  /\ pc = "trial"
  /\ k <= Len(itemsToPack)
  /\ findBestSpace(itemsToPack[k], freeSpaces).bestSpaceIndex # 0
  /\ LET st == packItem(trialState, itemsToPack[k])
     IN /\ freeSpaces' = st.freeSpaces
        /\ placedItems' = st.placedItems
        /\ totalPackedVol' = st.totalPackedVol
  /\ k' = k + 1
  /\ UNCHANGED <<container, manifest, items, src, pc, packInput, packInputSrc, trial,
                 itemsToPack, bestResult, results, dragId, groupPos, drags,
                 snapIn, snapOut, callIn, callOut>>

\* one iteration of the item loop that finds none
PlaceFailed ==
  /\ pc = "trial"
  /\ k <= Len(itemsToPack)
  /\ findBestSpace(itemsToPack[k], freeSpaces).bestSpaceIndex = 0
  /\ LET st == packItem(trialState, itemsToPack[k])
     IN /\ freeSpaces' = st.freeSpaces
        /\ placedItems' = st.placedItems
        /\ totalPackedVol' = st.totalPackedVol
  /\ k' = k + 1
  /\ UNCHANGED <<container, manifest, items, src, pc, packInput, packInputSrc, trial,
                 itemsToPack, bestResult, results, dragId, groupPos, drags,
                 snapIn, snapOut, callIn, callOut>>

\* a trial returns, autoPack keeps the better result and runs the next trial
TrialReturn ==
  /\ pc = "trial"
  /\ k > Len(itemsToPack)
  /\ trial < Len(battery)
  /\ LET result == trialResult(placedItems, totalPackedVol)
     IN /\ bestResult' = betterResult(bestResult, result)
        /\ results' = Append(results, result)
  /\ BeginTrial(trial + 1, packInput)
  /\ UNCHANGED <<container, manifest, items, src, pc, packInput, packInputSrc, dragId,
                 groupPos, drags, snapIn, snapOut, callIn, callOut>>

\* the last trial returns and autoPack returns; App stores the list
AutoPackReturn ==
  /\ pc = "trial"
  /\ k > Len(itemsToPack)
  /\ trial = Len(battery)
  /\ LET result == trialResult(placedItems, totalPackedVol)
         best == betterResult(bestResult, result)
     IN /\ bestResult' = best
        /\ results' = Append(results, result)
        /\ items' = autoPackOutput(best, container)
  /\ src' = "autoPack"
  /\ pc' = "idle"
  /\ trial' = 0
  /\ itemsToPack' = <<>>
  /\ k' = 0
  /\ freeSpaces' = <<>>
  /\ placedItems' = <<>>
  /\ totalPackedVol' = 0
  /\ UNCHANGED <<container, manifest, packInput, packInputSrc, dragId, groupPos, drags,
                 snapIn, snapOut, callIn, callOut>>

\* the "reset" button
Reset ==
  /\ pc = "idle"
  /\ src # "staging"
  /\ items' = arrangeStaging(createCargoGroups(manifest), container)
  /\ src' = "staging"
  /\ packInput' = <<>>
  /\ packInputSrc' = "none"
  /\ bestResult' = noResult
  /\ results' = <<>>
  /\ drags' = 0
  /\ UNCHANGED <<container, manifest, pc, trial, itemsToPack, k, freeSpaces,
                 placedItems, totalPackedVol, dragId, groupPos, snapIn, snapOut, callIn, callOut>>

\* the "auto pack" button, as one step: setItems(autoPack(items, container))
AutoPack ==
  /\ pc = "idle"
  /\ items' = autoPack(items, container)
  /\ src' = "autoPack"
  /\ UNCHANGED <<container, manifest, pc, packInput, packInputSrc, trial,
                 itemsToPack, k, freeSpaces, placedItems, totalPackedVol,
                 bestResult, results, dragId, groupPos, drags, snapIn, snapOut, callIn, callOut>>

----------------------------------------------------------------------------
(* Interactive drag (CargoBox) *)

snapGrid == 5

snapThreshold == 150

\* Math.round(v / snap) * snap
roundToGrid(v) == (((2 * v) + snapGrid) \div (2 * snapGrid)) * snapGrid

ItemById(its, id) == its[CHOOSE i \in 1..Len(its) : its[i].id = id]

checkValid(item, allItems, cont, x, y, z) ==
  ~ checkCollisionWithCoords(
      [x |-> x, y |-> y, z |-> z, l |-> item.dimensions.length,
       h |-> item.dimensions.height, w |-> item.dimensions.width, id |-> item.id],
      allItems, cont)

\* a variant of dragFinalPos whose slide along x is not checked for collision
dragFinalPos_UncheckedSlide(item, allItems, cont, raw, shiftKey) ==
  LET rawCornerX == IF shiftKey THEN item.position[1] ELSE raw[1]
      rawCornerY == IF shiftKey THEN raw[2] ELSE item.position[2]
      rawCornerZ == IF shiftKey THEN item.position[3] ELSE raw[3]
      candidate == <<roundToGrid(rawCornerX), roundToGrid(rawCornerY),
                     roundToGrid(rawCornerZ)>>
      snapped == getSnappingPosition(candidate, item.dimensions, allItems,
                                     item.id, snapThreshold)
      first == IF checkValid(item, allItems, cont, snapped[1], snapped[2], snapped[3])
               THEN snapped ELSE <<>>
  IN IF first = <<>> /\ ~ shiftKey
     THEN <<snapped[1], item.position[2], item.position[3]>>
     ELSE first

\* handlePointerMove: raw is the corner under the pointer (rawCenter - dims / 2);
\* the result is finalPos, or <<>> for null
dragFinalPos(item, allItems, cont, raw, shiftKey) ==
  LET rawCornerX == IF shiftKey THEN item.position[1] ELSE raw[1]
      rawCornerY == IF shiftKey THEN raw[2] ELSE item.position[2]
      rawCornerZ == IF shiftKey THEN item.position[3] ELSE raw[3]
      candidate == <<roundToGrid(rawCornerX), roundToGrid(rawCornerY),
                     roundToGrid(rawCornerZ)>>
      snapped == getSnappingPosition(candidate, item.dimensions, allItems,
                                     item.id, snapThreshold)
      first == IF checkValid(item, allItems, cont, snapped[1], snapped[2], snapped[3])
               THEN snapped ELSE <<>>
      second == IF first = <<>> /\ ~ shiftKey
                THEN (IF checkValid(item, allItems, cont, snapped[1],
                                    item.position[2], item.position[3])
                      THEN <<snapped[1], item.position[2], item.position[3]>>
                      ELSE <<>>)
                ELSE first
      third == IF first = <<>> /\ ~ shiftKey /\ second = <<>>
               THEN (IF checkValid(item, allItems, cont, item.position[1],
                                   item.position[2], snapped[3])
                     THEN <<item.position[1], item.position[2], snapped[3]>>
                     ELSE <<>>)
               ELSE second
  IN third

\* groupRef.current.position is the centre of the box; the model keeps twice
\* the centre to stay in the integers
centreOf(pos, dims) ==
  <<(2 * pos[1]) + dims.length, (2 * pos[2]) + dims.height, (2 * pos[3]) + dims.width>>

cornerOf(centre, dims) ==
  <<(centre[1] - dims.length) \div 2, (centre[2] - dims.height) \div 2,
    (centre[3] - dims.width) \div 2>>

\* onUpdateItem
updateItem(its, id, pos) ==
  [i \in 1..Len(its) |-> IF its[i].id = id THEN [its[i] EXCEPT !.position = pos]
                         ELSE its[i]]

PointerDown ==
  /\ pc = "idle"
  /\ drags < MaxDrags
  /\ \E i \in 1..Len(items) :
        /\ dragId' = items[i].id
        /\ groupPos' = centreOf(items[i].position, items[i].dimensions)
  /\ pc' = "drag"
  /\ UNCHANGED <<container, manifest, items, src, packInput, packInputSrc, trial, itemsToPack,
                 k, freeSpaces, placedItems, totalPackedVol, bestResult, results,
                 drags, snapIn, snapOut, callIn, callOut>>

\* where the pointer ray meets the drag plane, as the corner it asks for
RawX == {0 - 200, 302, 598}

RawY == {0 - 200, 598}

RawZ == {3, 2503}

\* without shift the pointer moves the box on its horizontal plane, with shift
\* along the vertical
PointerRays ==
  { [raw |-> <<rx, 0, rz>>, shiftKey |-> FALSE] : rx \in RawX, rz \in RawZ }
  \cup { [raw |-> <<0, ry, 0>>, shiftKey |-> TRUE] : ry \in RawY }

\* a pointer move whose candidate (or a fallback) is free: the box follows
PointerMoveAccepted ==
  /\ pc = "drag"
  /\ \E e \in PointerRays :
        LET item == ItemById(items, dragId)
            finalPos == dragFinalPos(item, items, container, e.raw, e.shiftKey)
        IN /\ finalPos # <<>>
           /\ groupPos' = centreOf(finalPos, item.dimensions)
  /\ UNCHANGED <<container, manifest, items, src, pc, packInput, packInputSrc, trial,
                 itemsToPack, k, freeSpaces, placedItems, totalPackedVol,
                 bestResult, results, dragId, drags, snapIn, snapOut, callIn, callOut>>

\* a pointer move whose candidate and fallbacks all collide: nothing moves
PointerMoveRejected ==
  /\ pc = "drag"
  /\ \E e \in PointerRays :
        dragFinalPos(ItemById(items, dragId), items, container,
                     e.raw, e.shiftKey) = <<>>
  /\ UNCHANGED vars

PointerUp ==
  /\ pc = "drag"
  /\ items' = updateItem(items, dragId,
                         cornerOf(groupPos, ItemById(items, dragId).dimensions))
  /\ src' = "drag"
  /\ pc' = "idle"
  /\ dragId' = 0
  /\ groupPos' = <<>>
  /\ drags' = drags + 1
  /\ UNCHANGED <<container, manifest, packInput, packInputSrc, trial, itemsToPack, k,
                 freeSpaces, placedItems, totalPackedVol, bestResult, results,
                 snapIn, snapOut, callIn, callOut>>

----------------------------------------------------------------------------
(* Inputs *)

CUSTOM_SPEC == [length |-> 11500, width |-> 1800, height |-> 1800]

CubeContainer == [length |-> 1000, width |-> 1000, height |-> 1000]

Row(l, w, h, n) == [length |-> l, width |-> w, height |-> h, idLen |-> n]

CubeRows ==
  { Row(600, 600, 600, 28), Row(1000, 1000, 1000, 28), Row(500, 800, 500, 29),
    Row(700, 300, 800, 28), Row(800, 400, 400, 29) }

CustomRows ==
  { Row(10400, 10, 510, 28), Row(400, 210, 220, 29) }

SmallContainer == [length |-> 300, width |-> 200, height |-> 100]

SmallRows ==
  { Row(200, 150, 100, 28), Row(140, 200, 100, 28), Row(100, 50, 50, 29),
    Row(300, 200, 100, 28) }

Scenarios ==
  { [container |-> CubeContainer, rows |-> CubeRows],
    [container |-> CUSTOM_SPEC, rows |-> CustomRows],
    [container |-> SmallContainer, rows |-> SmallRows] }

DragScenarios ==
  { [container |-> CubeContainer,
     rows |-> { Row(600, 600, 600, 28), Row(400, 400, 400, 29) }] }

RowLists(rows, n) == UNION { [1..m -> rows] : m \in 0..n }

InitFrom(scenarios, n) ==
  /\ \E sc \in scenarios : \E rows \in RowLists(sc.rows, n) :
        /\ container = sc.container
        /\ manifest = rows
        /\ items = arrangeStaging(createCargoGroups(rows), sc.container)
  /\ src = "staging"
  /\ pc = "idle"
  /\ packInput = <<>>
  /\ packInputSrc = "none"
  /\ trial = 0
  /\ itemsToPack = <<>>
  /\ k = 0
  /\ freeSpaces = <<>>
  /\ placedItems = <<>>
  /\ totalPackedVol = 0
  /\ bestResult = noResult
  /\ results = <<>>
  /\ dragId = 0
  /\ groupPos = <<>>
  /\ drags = 0
  /\ callIn = <<>>
  /\ callOut = <<>>
  /\ snapIn = <<>>
  /\ snapOut = <<>>

----------------------------------------------------------------------------
(* Specifications *)

\* the packing battery, from every manifest of up to MaxItems rows
Init == InitFrom(Scenarios, MaxItems)

Next ==
  \/ AutoPackClick
  \/ PlaceSuccess
  \/ PlaceFailed
  \/ TrialReturn
  \/ AutoPackReturn
  \/ Reset

Spec == Init /\ [][Next]_vars

\* the application with its drags, from every manifest of up to MaxDragItems rows
InitDrag == InitFrom(DragScenarios, MaxDragItems)

NextDrag ==
  \/ AutoPack
  \/ Reset
  \/ PointerDown
  \/ PointerMoveAccepted
  \/ PointerMoveRejected
  \/ PointerUp

SpecDrag == InitDrag /\ [][NextDrag]_vars

----------------------------------------------------------------------------
(* getSnappingPosition on its own *)

\* most neighbours handed to one call
MaxNeighbours == 2

SnapCandidates ==
  { <<152, 0, 0>>, <<148, 0, 0>>, <<0, 152, 0>>, <<0, 0, 152>>, <<460, 460, 460>> }

SnapDims ==
  { [length |-> l, width |-> w, height |-> h] :
      l \in {1, 100, 149, 150, 400}, w \in {100, 400}, h \in {100, 400} }

Neighbour(id, pos, l, w, h) ==
  [id |-> id, idLen |-> 28,
   dimensions |-> [length |-> l, width |-> w, height |-> h],
   position |-> pos, isValid |-> TRUE]

\* the dragged item itself is part of allItems (id 1)
SnapOthers ==
  { Neighbour(1, <<152, 0, 0>>, 100, 100, 100),
    Neighbour(2, <<0, 0, 0>>, 150, 150, 150),
    Neighbour(3, <<0, 0, 0>>, 150, 400, 100),
    Neighbour(4, <<300, 0, 300>>, 200, 200, 200),
    Neighbour(5, <<0, 0, 0>>, 800, 800, 800) }

InitSnap ==
  /\ \E pos \in SnapCandidates, dims \in SnapDims, n \in 1..MaxNeighbours :
       \E others \in [1..n -> SnapOthers] :
          snapIn = [currentPos |-> pos, dims |-> dims, others |-> others,
                    id |-> 1, threshold |-> snapThreshold]
  /\ snapOut = <<>>
  /\ pc = "snap"
  /\ container = CUSTOM_SPEC
  /\ manifest = <<>>
  /\ items = <<>>
  /\ src = "none"
  /\ packInput = <<>>
  /\ packInputSrc = "none"
  /\ trial = 0
  /\ itemsToPack = <<>>
  /\ k = 0
  /\ freeSpaces = <<>>
  /\ placedItems = <<>>
  /\ totalPackedVol = 0
  /\ bestResult = noResult
  /\ results = <<>>
  /\ dragId = 0
  /\ groupPos = <<>>
  /\ drags = 0
  /\ callIn = <<>>
  /\ callOut = <<>>

SnapCall ==
  /\ pc = "snap"
  /\ snapOut' = getSnappingPosition(snapIn.currentPos, snapIn.dims, snapIn.others,
                                    snapIn.id, snapIn.threshold)
  /\ pc' = "snapped"
  /\ UNCHANGED <<container, manifest, items, src, packInput, packInputSrc, trial,
                 itemsToPack, k, freeSpaces, placedItems, totalPackedVol,
                 bestResult, results, dragId, groupPos, drags, snapIn, callIn, callOut>>

NextSnap == SnapCall

SpecSnap == InitSnap /\ [][NextSnap]_vars

\* arrangeStaging on its own: item lists with long and wide items
MaxStagingItems == 3

StagingRows ==
  { Row(7000, 500, 300, 28), Row(7900, 300, 300, 28), Row(8000, 800, 400, 29),
    Row(16000, 200, 200, 28), Row(400, 210, 220, 29) }

InitStaging ==
  /\ \E rows \in RowLists(StagingRows, MaxStagingItems) :
        /\ manifest = rows
        /\ packInput = createCargoGroups(rows)
  /\ container = CUSTOM_SPEC
  /\ items = <<>>
  /\ src = "none"
  /\ pc = "stage"
  /\ packInputSrc = "none"
  /\ trial = 0
  /\ itemsToPack = <<>>
  /\ k = 0
  /\ freeSpaces = <<>>
  /\ placedItems = <<>>
  /\ totalPackedVol = 0
  /\ bestResult = noResult
  /\ results = <<>>
  /\ dragId = 0
  /\ groupPos = <<>>
  /\ drags = 0
  /\ callIn = <<>>
  /\ callOut = <<>>
  /\ snapIn = <<>>
  /\ snapOut = <<>>

\* setItems(arrangeStaging(createCargoGroups(rows), container))
StagingCall ==
  /\ pc = "stage"
  /\ items' = arrangeStaging(packInput, container)
  /\ src' = "staging"
  /\ pc' = "staged"
  /\ UNCHANGED <<container, manifest, packInput, packInputSrc, trial, itemsToPack, k,
                 freeSpaces, placedItems, totalPackedVol, bestResult, results,
                 dragId, groupPos, drags, snapIn, snapOut, callIn, callOut>>

NextStaging == StagingCall

SpecStaging == InitStaging /\ [][NextStaging]_vars

\* checkCollision on its own: an item against lists of up to MaxOthers items
MaxOthers == 2

CollidePositions ==
  { <<0, 0, 0>>, <<50, 0, 0>>, <<99, 0, 0>>, <<100, 0, 0>>, <<98, 98, 98>>,
    <<0 - 5, 0, 0>>, <<0, 0 - 9999, 0>>, <<300, 0, 0 - 1>>,
    <<2000, 0, 0>>, <<300, 950, 3000>> }

CollideDims ==
  { [length |-> 100, width |-> 100, height |-> 100],
    [length |-> 1, width |-> 100, height |-> 100] }

\* the list holds the item itself (id 1) as App's list does
CollideOthers ==
  { Neighbour(1, <<0, 0, 0>>, 100, 100, 100),
    Neighbour(2, <<0, 0, 0>>, 100, 100, 100),
    Neighbour(3, <<150, 0, 0>>, 100, 100, 100),
    Neighbour(4, <<0, 99, 0>>, 400, 400, 400) }

InitCollide ==
  /\ \E pos \in CollidePositions, dims \in CollideDims, n \in 0..MaxOthers :
       \E others \in [1..n -> CollideOthers] :
          callIn = [item |-> [Neighbour(1, pos, 100, 100, 100) EXCEPT !.dimensions = dims],
                    others |-> others]
  /\ callOut = <<>>
  /\ pc = "collide"
  /\ container = CubeContainer
  /\ manifest = <<>>
  /\ items = <<>>
  /\ src = "none"
  /\ packInput = <<>>
  /\ packInputSrc = "none"
  /\ trial = 0
  /\ itemsToPack = <<>>
  /\ k = 0
  /\ freeSpaces = <<>>
  /\ placedItems = <<>>
  /\ totalPackedVol = 0
  /\ bestResult = noResult
  /\ results = <<>>
  /\ dragId = 0
  /\ groupPos = <<>>
  /\ drags = 0
  /\ snapIn = <<>>
  /\ snapOut = <<>>

CollideCall ==
  /\ pc = "collide"
  /\ callOut' = checkCollision(callIn.item, callIn.others, container)
  /\ pc' = "collided"
  /\ UNCHANGED <<container, manifest, items, src, packInput, packInputSrc, trial,
                 itemsToPack, k, freeSpaces, placedItems, totalPackedVol,
                 bestResult, results, dragId, groupPos, drags, snapIn, snapOut,
                 callIn>>

NextCollide == CollideCall

SpecCollide == InitCollide /\ [][NextCollide]_vars

\* the split on its own: free boxes and a placed box on a grid of MaxCoord
\* units a side
MaxCoord == 3

Box(x, y, z, l, h, w) == [x |-> x, y |-> y, z |-> z, l |-> l, h |-> h, w |-> w]

\* free boxes: the whole grid, two boxes inset by one unit, a slab at the far end
SplitSpaces ==
  { Box(0, 0, 0, MaxCoord, MaxCoord, MaxCoord),
    Box(1, 0, 1, MaxCoord - 1, MaxCoord, MaxCoord - 1),
    Box(0, 1, 0, MaxCoord, MaxCoord - 1, MaxCoord),
    Box(MaxCoord - 1, 0, 0, 1, MaxCoord, MaxCoord) }

\* placed boxes: every box of the grid
GridBoxes ==
  { Box(x, y, z, l, h, w) :
      x \in 0..(MaxCoord - 1), y \in 0..(MaxCoord - 1), z \in 0..(MaxCoord - 1),
      l \in 1..MaxCoord, h \in 1..MaxCoord, w \in 1..MaxCoord }

InitSplit ==
  /\ \E n \in 1..2 : \E spaces \in [1..n -> SplitSpaces] :
        \E placedBox \in { b \in GridBoxes : /\ b.x + b.l <= MaxCoord
                                             /\ b.y + b.h <= MaxCoord
                                             /\ b.z + b.w <= MaxCoord } :
           callIn = [freeSpaces |-> spaces, placedBox |-> placedBox]
  /\ callOut = <<>>
  /\ pc = "split"
  /\ container = CubeContainer
  /\ manifest = <<>>
  /\ items = <<>>
  /\ src = "none"
  /\ packInput = <<>>
  /\ packInputSrc = "none"
  /\ trial = 0
  /\ itemsToPack = <<>>
  /\ k = 0
  /\ freeSpaces = <<>>
  /\ placedItems = <<>>
  /\ totalPackedVol = 0
  /\ bestResult = noResult
  /\ results = <<>>
  /\ dragId = 0
  /\ groupPos = <<>>
  /\ drags = 0
  /\ snapIn = <<>>
  /\ snapOut = <<>>

\* the loop that builds newFreeSpaces
SplitCall ==
  /\ pc = "split"
  /\ callOut' = splitSpaces(callIn.freeSpaces, callIn.placedBox, 1)
  /\ pc' = "split done"
  /\ UNCHANGED <<container, manifest, items, src, packInput, packInputSrc, trial,
                 itemsToPack, k, freeSpaces, placedItems, totalPackedVol,
                 bestResult, results, dragId, groupPos, drags, snapIn, snapOut,
                 callIn>>

NextSplit == SplitCall

SpecSplit == InitSplit /\ [][NextSplit]_vars

\* cleanupSpaces on its own, on lists of up to MaxSpaces boxes, and inside
\* the trials of the packing battery
MaxSpaces == 3

CleanupBoxes ==
  { Box(0, 0, 0, 1000, 1000, 1000), Box(0, 0, 0, 600, 1000, 1000),
    Box(600, 0, 0, 400, 1000, 1000), Box(0, 600, 0, 1000, 400, 1000),
    Box(0, 0, 0, 49, 1000, 1000), Box(100, 100, 100, 50, 50, 50),
    Box(500, 0, 0, 500, 1000, 30) }

InitCleanup ==
  /\ \E n \in 0..MaxSpaces : \E spaces \in [1..n -> CleanupBoxes] : callIn = spaces
  /\ callOut = <<>>
  /\ pc = "cleanup"
  /\ container = CubeContainer
  /\ manifest = <<>>
  /\ items = <<>>
  /\ src = "none"
  /\ packInput = <<>>
  /\ packInputSrc = "none"
  /\ trial = 0
  /\ itemsToPack = <<>>
  /\ k = 0
  /\ freeSpaces = <<>>
  /\ placedItems = <<>>
  /\ totalPackedVol = 0
  /\ bestResult = noResult
  /\ results = <<>>
  /\ dragId = 0
  /\ groupPos = <<>>
  /\ drags = 0
  /\ snapIn = <<>>
  /\ snapOut = <<>>

CleanupCall ==
  /\ pc = "cleanup"
  /\ callOut' = cleanupSpaces(callIn)
  /\ pc' = "cleaned"
  /\ UNCHANGED <<container, manifest, items, src, packInput, packInputSrc, trial,
                 itemsToPack, k, freeSpaces, placedItems, totalPackedVol,
                 bestResult, results, dragId, groupPos, drags, snapIn, snapOut,
                 callIn>>

NextCleanup ==
  \/ CleanupCall
  \/ AutoPackClick
  \/ PlaceSuccess
  \/ PlaceFailed
  \/ TrialReturn
  \/ AutoPackReturn
  \/ Reset

SpecCleanup == (InitCleanup \/ Init) /\ [][NextCleanup]_vars

\* one pass of the item loop on its own: one item against a free-space list
\* of up to MaxSpaces boxes, some of them with equal scores
PlaceRows ==
  { Row(400, 200, 300, 28), Row(200, 400, 300, 28), Row(300, 300, 300, 28),
    Row(600, 100, 300, 29) }

PlaceSpaces ==
  { Box(0, 0, 1, 400, 300, 200), Box(1000, 0, 0, 200, 300, 400),
    Box(1000, 0, 0, 400, 400, 400), Box(0, 1, 0, 1000, 1000, 1000),
    Box(0, 0, 0, 100, 100, 100), Box(500, 0, 0, 300, 300, 300) }

InitPlace ==
  /\ \E row \in PlaceRows : \E n \in 0..MaxSpaces : \E spaces \in [1..n -> PlaceSpaces] :
        callIn = [item |-> createCargoGroups(<<row>>)[1],
                  st |-> [freeSpaces |-> spaces, placedItems |-> <<>>,
                          totalPackedVol |-> 0]]
  /\ callOut = <<>>
  /\ pc = "place"
  /\ container = CubeContainer
  /\ manifest = <<>>
  /\ items = <<>>
  /\ src = "none"
  /\ packInput = <<>>
  /\ packInputSrc = "none"
  /\ trial = 0
  /\ itemsToPack = <<>>
  /\ k = 0
  /\ freeSpaces = <<>>
  /\ placedItems = <<>>
  /\ totalPackedVol = 0
  /\ bestResult = noResult
  /\ results = <<>>
  /\ dragId = 0
  /\ groupPos = <<>>
  /\ drags = 0
  /\ snapIn = <<>>
  /\ snapOut = <<>>

PlaceCall ==
  /\ pc = "place"
  /\ callOut' = packItem(callIn.st, callIn.item)
  /\ pc' = "placed"
  /\ UNCHANGED <<container, manifest, items, src, packInput, packInputSrc, trial,
                 itemsToPack, k, freeSpaces, placedItems, totalPackedVol,
                 bestResult, results, dragId, groupPos, drags, snapIn, snapOut,
                 callIn>>

NextPlace == PlaceCall

SpecPlace == InitPlace /\ [][NextPlace]_vars

\* the sort at the head of runPackingTrial on its own: lists of up to
\* MaxSortItems items with equal volumes, footprints and longest sides among
\* them, under each strategy and seed of the battery
MaxSortItems == 3

SortRows ==
  { Row(200, 100, 300, 28), Row(300, 100, 200, 28), Row(100, 300, 200, 28),
    Row(200, 150, 100, 28), Row(300, 300, 100, 29), Row(200, 100, 300, 29) }

InitSort ==
  /\ \E rows \in RowLists(SortRows, MaxSortItems) : \E t \in 1..Len(battery) :
        callIn = [items |-> createCargoGroups(rows),
                  strategy |-> battery[t].strategy, seed |-> battery[t].seed]
  /\ callOut = <<>>
  /\ pc = "sort"
  /\ container = CubeContainer
  /\ manifest = <<>>
  /\ items = <<>>
  /\ src = "none"
  /\ packInput = <<>>
  /\ packInputSrc = "none"
  /\ trial = 0
  /\ itemsToPack = <<>>
  /\ k = 0
  /\ freeSpaces = <<>>
  /\ placedItems = <<>>
  /\ totalPackedVol = 0
  /\ bestResult = noResult
  /\ results = <<>>
  /\ dragId = 0
  /\ groupPos = <<>>
  /\ drags = 0
  /\ snapIn = <<>>
  /\ snapOut = <<>>

SortCall ==
  /\ pc = "sort"
  /\ callOut' = sortItems(callIn.items, callIn.strategy, callIn.seed)
  /\ pc' = "sorted"
  /\ UNCHANGED <<container, manifest, items, src, packInput, packInputSrc, trial,
                 itemsToPack, k, freeSpaces, placedItems, totalPackedVol,
                 bestResult, results, dragId, groupPos, drags, snapIn, snapOut,
                 callIn>>

NextSort == SortCall

SpecSort == InitSort /\ [][NextSort]_vars

----------------------------------------------------------------------------
(* Properties *)

Ids(its) == { its[i].id : i \in 1..Len(its) }

NonNegative(pos) == pos[1] >= 0 /\ pos[2] >= 0 /\ pos[3] >= 0

\* the item lies inside the container's load volume
InsideContainer(item, cont) ==
  /\ NonNegative(item.position)
  /\ item.position[1] + item.dimensions.length <= cont.length
  /\ item.position[2] + item.dimensions.height <= cont.height
  /\ item.position[3] + item.dimensions.width <= cont.width

\* the item stands in the staging area beside the container
Staged(item, cont) == item.position[3] >= stagingZStart(cont)

AutoPackReturned == pc = "idle" /\ src = "autoPack"

\* the battery run step by step returns what autoPack returns
StepsAgreeWithAutoPack ==
  (AutoPackReturned /\ Len(results) = Len(battery)) =>
     items = autoPack(packInput, container)

\* C1: in the list autoPack returns every item is flagged valid and
\* checkCollision of any item against the whole list is false: no two items,
\* placed or re-staged, overlap beyond the epsilon tolerance.
C1_AutoPackOutputNoOverlap ==
  AutoPackReturned =>
    \A i \in 1..Len(items) :
       /\ items[i].isValid
       /\ ~ checkCollision(items[i], items, container)

\* autoPack returned two placed items that touch and a re-staged one
C1_Witness ==
  /\ AutoPackReturned
  /\ \E i, j, m \in 1..Len(items) :
        /\ i # j
        /\ InsideContainer(items[i], container)
        /\ InsideContainer(items[j], container)
        /\ \/ items[j].position[1] = items[i].position[1] + items[i].dimensions.length
           \/ items[j].position[2] = items[i].position[2] + items[i].dimensions.height
           \/ items[j].position[3] = items[i].position[3] + items[i].dimensions.width
        /\ Staged(items[m], container)

\* the length on which the intervals [lo1, lo1 + len1] and [lo2, lo2 + len2]
\* overlap (negative when they are apart)
OverlapLength(lo1, len1, lo2, len2) ==
  (IF lo1 + len1 < lo2 + len2 THEN lo1 + len1 ELSE lo2 + len2) - Max2(lo1, lo2)

\* two boxes overlap by more than the epsilon on all three axes
OverlapBeyondEpsilon(posA, dimsA, posB, dimsB) ==
  /\ OverlapLength(posA[1], dimsA.length, posB[1], dimsB.length) > 1
  /\ OverlapLength(posA[2], dimsA.height, posB[2], dimsB.height) > 1
  /\ OverlapLength(posA[3], dimsA.width, posB[3], dimsB.width) > 1

\* C2: whatever drags have been made from an output of arrangeStaging or of
\* autoPack, every committed coordinate is >= 0 and no two items overlap by
\* more than the epsilon on all three axes; and the position the dragged box
\* shows (the one pointer-up commits) overlaps no other item and is >= 0.
C2_DragsKeepNonOverlap ==
  /\ \A i \in 1..Len(items) :
        /\ NonNegative(items[i].position)
        /\ \A j \in 1..Len(items) :
              i # j => ~ OverlapBeyondEpsilon(items[i].position, items[i].dimensions,
                                              items[j].position, items[j].dimensions)
  /\ pc = "drag" =>
       LET item == ItemById(items, dragId)
           shown == cornerOf(groupPos, item.dimensions)
       IN /\ NonNegative(shown)
          /\ \A j \in 1..Len(items) :
                items[j].id # dragId =>
                   ~ OverlapBeyondEpsilon(shown, item.dimensions,
                                          items[j].position, items[j].dimensions)

\* after two drags an item rests on top of another one
C2_Witness ==
  /\ pc = "idle"
  /\ src = "drag"
  /\ drags >= 2
  /\ \E i, j \in 1..Len(items) :
        /\ i # j
        /\ items[i].position[2] = items[j].position[2] + items[j].dimensions.height
        /\ items[i].position[1] < items[j].position[1] + items[j].dimensions.length
        /\ items[j].position[1] < items[i].position[1] + items[i].dimensions.length
        /\ items[i].position[3] < items[j].position[3] + items[j].dimensions.width
        /\ items[j].position[3] < items[i].position[3] + items[i].dimensions.width

\* C3: every item flagged valid in an output of arrangeStaging or of autoPack
\* has its three position coordinates >= 0.
C3_ValidItemsNonNegative ==
  (pc = "idle" /\ src \in {"staging", "autoPack"}) =>
    \A i \in 1..Len(items) :
       items[i].isValid => NonNegative(items[i].position)

\* autoPack returned a list with an item placed away from the origin and an
\* item that failed in the winning trial
C3_Witness ==
  /\ AutoPackReturned
  /\ \E i \in 1..Len(items) :
        /\ InsideContainer(items[i], container)
        /\ items[i].position[1] > 0
  /\ \E i \in 1..Len(bestResult.items) : ~ bestResult.items[i].isValid

\* C4: autoPack returns a list as long as its input, made of the winning
\* trial's valid items followed by its invalid items re-staged, and holding
\* every input item (by id) exactly once.
C4_AutoPackKeepsLength ==
  AutoPackReturned =>
    LET success == SelectSeq(bestResult.items, IsValid)
        failed == SelectSeq(bestResult.items, IsInvalid)
    IN /\ Len(items) = Len(packInput)
       /\ Ids(items) = Ids(packInput)
       /\ Cardinality(Ids(items)) = Len(items)
       /\ SubSeq(items, 1, Len(success)) = success
       /\ \A i \in 1..Len(failed) :
             /\ items[Len(success) + i].id = failed[i].id
             /\ Staged(items[Len(success) + i], container)

\* autoPack returned three items, some placed and some re-staged
C4_Witness ==
  /\ AutoPackReturned
  /\ Len(packInput) = 3
  /\ \E i, j \in 1..Len(items) :
        /\ InsideContainer(items[i], container)
        /\ Staged(items[j], container)

\* the index of the first trial of rs with the greatest packed volume
FirstBest(rs) ==
  CHOOSE t \in 1..Len(rs) :
     /\ \A u \in 1..Len(rs) : rs[t].packedVolume >= rs[u].packedVolume
     /\ \A u \in 1..(t - 1) : rs[u].packedVolume < rs[t].packedVolume

\* C5: the result autoPack keeps, and returns, is that of the trial with the
\* greatest packed volume of the seven, the earliest in battery order on a tie.
C5_BestTrialWins ==
  /\ (pc = "trial" /\ results # <<>>) => bestResult = results[FirstBest(results)]
  /\ AutoPackReturned =>
       /\ Len(results) = Len(battery)
       /\ \A t \in 1..Len(results) :
             bestResult.packedVolume >= results[t].packedVolume
       /\ bestResult = results[FirstBest(results)]
       /\ items = autoPackOutput(results[FirstBest(results)], container)

\* the winner is not the first trial: it beats the VOLUME trial and is tied
\* with a later trial
C5_Witness ==
  /\ AutoPackReturned
  /\ Len(results) = Len(battery)
  /\ FirstBest(results) > 1
  /\ \E u \in 1..Len(results) :
        /\ u > FirstBest(results)
        /\ results[u].packedVolume = results[FirstBest(results)].packedVolume
  /\ results[1].packedVolume < bestResult.packedVolume

BoxOfItem(item) ==
  [x |-> item.position[1], y |-> item.position[2], z |-> item.position[3],
   l |-> item.dimensions.length, h |-> item.dimensions.height,
   w |-> item.dimensions.width]

\* C6: during a trial no free-space box intersects an item the trial placed.
C6_FreeSpacesAvoidPlacedItems ==
  pc = "trial" =>
    \A f \in 1..Len(freeSpaces) : \A i \in 1..Len(placedItems) :
       placedItems[i].isValid =>
          ~ boxIntersect(freeSpaces[f], BoxOfItem(placedItems[i]))

\* a trial that has placed two items, one of them rotated, and still has
\* several free boxes
C6_Witness ==
  /\ pc = "trial"
  /\ Len(freeSpaces) >= 3
  /\ \E i, j \in 1..Len(placedItems) :
        /\ i # j
        /\ placedItems[i].isValid
        /\ placedItems[j].isValid
        /\ \E m \in 1..Len(packInput) :
              /\ packInput[m].id = placedItems[j].id
              /\ packInput[m].dimensions # placedItems[j].dimensions

\* the free boxes that can hold the item in some orientation
Feasible(item, spaces) ==
  { i \in 1..Len(spaces) : fitsUnrotated(item, spaces[i]) \/ fitsRotated(item, spaces[i]) }

\* height, then depth, then left to right
LexLess(a, b) ==
  \/ a.y < b.y
  \/ a.y = b.y /\ a.z < b.z
  \/ a.y = b.y /\ a.z = b.z /\ a.x < b.x

\* C7: the region the scorer chooses for the next item has the smallest y of
\* the regions that can hold the item, among those the smallest z and among
\* those the smallest x.
C7_ScorerIsLexicographic ==
  (pc = "trial" /\ k <= Len(itemsToPack)) =>
    LET item == itemsToPack[k]
        best == findBestSpace(item, freeSpaces)
    IN best.bestSpaceIndex # 0 =>
         \A i \in Feasible(item, freeSpaces) :
            ~ LexLess(freeSpaces[i], freeSpaces[best.bestSpaceIndex])

\* every item of the list lies inside the container
AllInside(its, cont) == \A i \in 1..Len(its) : InsideContainer(its[i], cont)

\* C8: when autoPack is run on the output of an autoPack run that placed every
\* item inside the container, the second run places every item too, so the
\* packed volume does not decrease.
C8_RepackKeepsEverything ==
  (AutoPackReturned /\ packInputSrc = "autoPack" /\ AllInside(packInput, container)) =>
    /\ AllInside(items, container)
    /\ bestResult.packedCount = Len(packInput)

\* a second run on a fully packed list of three items, one of which the first
\* run had rotated
C8_Witness ==
  /\ AutoPackReturned
  /\ packInputSrc = "autoPack"
  /\ Len(packInput) = 3
  /\ AllInside(packInput, container)
  /\ \E i \in 1..Len(packInput) :
        packInput[i].dimensions.length = manifest[packInput[i].id].width
        /\ packInput[i].dimensions.length # manifest[packInput[i].id].length

\* Scenario B: two 600 x 600 x 600 items, container 1000 x 1000 x 1000
ScenarioB ==
  /\ container = CubeContainer
  /\ manifest = << Row(600, 600, 600, 28), Row(600, 600, 600, 28) >>
  /\ packInputSrc = "staging"

\* C9 as stated: in Scenario B the first item is placed at (0,0,0), the scorer
\* selects for the second item a free region with y = 0, and the second
\* item's final position does not collide with the first.
C9_SecondItemPlacedOnFloor ==
  /\ (ScenarioB /\ pc = "trial" /\ k = 2) =>
       /\ placedItems[1].isValid
       /\ placedItems[1].position = <<0, 0, 0>>
       /\ LET best == findBestSpace(itemsToPack[2], freeSpaces)
          IN /\ best.bestSpaceIndex # 0
             /\ freeSpaces[best.bestSpaceIndex].y = 0
  /\ (ScenarioB /\ AutoPackReturned) => ~ checkCollision(items[2], items, container)

\* C9 amended: in Scenario B the first item is placed at (0,0,0); no free
\* region can hold the second item (each of the three has an extent of 400),
\* so the scorer selects none, neither with y = 0 nor with y > 0; the item
\* fails in every trial and is re-staged at (0, 0, 2500), where it does not
\* collide with the first.
C9_SecondItemRestaged ==
  /\ (ScenarioB /\ pc = "trial" /\ k = 2) =>
       /\ placedItems[1].isValid
       /\ placedItems[1].position = <<0, 0, 0>>
       /\ Len(freeSpaces) = 3
       /\ \A f \in 1..Len(freeSpaces) :
             freeSpaces[f].l = 400 \/ freeSpaces[f].h = 400 \/ freeSpaces[f].w = 400
       /\ findBestSpace(itemsToPack[2], freeSpaces).bestSpaceIndex = 0
  /\ (ScenarioB /\ AutoPackReturned) =>
       /\ items[1].position = <<0, 0, 0>>
       /\ \A t \in 1..Len(results) : results[t].packedCount = 1
       /\ items[2].position = <<0, 0, 2500>>
       /\ ~ checkCollision(items[2], items, container)

\* Scenario B has run to its end
C9_Witness == ScenarioB /\ AutoPackReturned /\ Len(results) = Len(battery)

\* the neighbours of a call: the others that are not the item itself
SnapNeighbours(in) ==
  SelectSeq(in.others, LAMBDA o : o.id # in.id)

\* Scenario C: candidate corner (152,0,0), threshold 150, a single neighbour
\* occupying x in [0,150] at y = 0, z = 0
ScenarioC ==
  /\ pc = "snapped"
  /\ snapIn.currentPos = <<152, 0, 0>>
  /\ snapIn.threshold = 150
  /\ Len(SnapNeighbours(snapIn)) = 1
  /\ SnapNeighbours(snapIn)[1].position = <<0, 0, 0>>
  /\ SnapNeighbours(snapIn)[1].dimensions.length = 150

\* C10 as stated: in Scenario C getSnappingPosition returns x = 150 whatever
\* the item's dimensions.
C10_SnapsToFarFace == ScenarioC => snapOut[1] = 150

\* C10 amended: in Scenario C getSnappingPosition returns x = 150 for an item
\* at least 150 long; for a shorter item, of length L, the far-face alignment
\* overwrites it and the result is x = 150 - L.  It never returns x = 0.
C10_SnapsToFarFaceIfLong ==
  ScenarioC =>
    /\ snapIn.dims.length >= 150 => snapOut[1] = 150
    /\ snapIn.dims.length < 150 => snapOut[1] = 150 - snapIn.dims.length
    /\ snapOut[1] # 0

\* Scenario C with an item longer than the threshold
C10_Witness == ScenarioC /\ snapIn.dims.length = 400 /\ snapOut[1] = 150

\* the item has exactly the container's three extents
FillsContainer(item, cont) ==
  /\ item.dimensions.length = cont.length
  /\ item.dimensions.width = cont.width
  /\ item.dimensions.height = cont.height

\* C11: when the only item of the list has exactly the container's length,
\* width and height, every trial places it at (0,0,0) unrotated, leaves an
\* empty free-space list after split and cleanup and packs the container's
\* volume; autoPack returns the item at (0,0,0).
C11_ExactFitFillsContainer ==
  (Len(packInput) = 1 /\ FillsContainer(packInput[1], container)) =>
    /\ (pc = "trial" /\ k = 2) =>
         /\ placedItems[1].isValid
         /\ placedItems[1].position = <<0, 0, 0>>
         /\ placedItems[1].dimensions = packInput[1].dimensions
         /\ freeSpaces = <<>>
         /\ totalPackedVol = Volume(container)
    /\ AutoPackReturned =>
         /\ Len(items) = 1
         /\ items[1].isValid
         /\ items[1].position = <<0, 0, 0>>
         /\ bestResult.packedVolume = Volume(container)
         /\ bestResult.packedCount = 1

\* autoPack has returned for a single item that fills a container whose three
\* extents differ
C11_Witness ==
  /\ AutoPackReturned
  /\ Len(packInput) = 1
  /\ FillsContainer(packInput[1], container)
  /\ container.length # container.width
  /\ container.width # container.height
  /\ items[1].position = <<0, 0, 0>>

\* length * width * height as <<thousands, units>>: the value is
\* 1000 * thousands + units (the product itself may leave 32 bits)
VolumeSplit(d) ==
  LET area == d.length * d.width
      low == (area % 1000) * d.height
  IN <<((area \div 1000) * d.height) + (low \div 1000), low % 1000>>

\* the sum of the items' volumes, as <<thousands, units>>
RECURSIVE VolumeSum(_, _)
VolumeSum(its, i) ==
  IF i > Len(its) THEN <<0, 0>>
  ELSE LET rest == VolumeSum(its, i + 1)
           vol == VolumeSplit(its[i].dimensions)
           units == rest[2] + vol[2]
       IN <<rest[1] + vol[1] + (units \div 1000), units % 1000>>

\* the total volume of the items exceeds the container's
ExceedsContainer(its, cont) ==
  LET total == VolumeSum(its, 1)
      cap == VolumeSplit(cont)
  IN total[1] > cap[1] \/ (total[1] = cap[1] /\ total[2] > cap[2])

\* the two boxes share interior points
Intersects(posA, dimsA, posB, dimsB) ==
  /\ OverlapLength(posA[1], dimsA.length, posB[1], dimsB.length) > 0
  /\ OverlapLength(posA[2], dimsA.height, posB[2], dimsB.height) > 0
  /\ OverlapLength(posA[3], dimsA.width, posB[3], dimsB.width) > 0

\* the item has no point inside the container's load volume
OutsideContainer(item, cont) ==
  \/ item.position[1] >= cont.length
  \/ item.position[2] >= cont.height
  \/ item.position[3] >= cont.width

\* C12: when the items' total volume exceeds the container's volume, the
\* winning trial marks at least one item invalid, and every item it marked
\* invalid comes back re-staged: flagged valid, on the floor, outside the
\* container, and sharing no interior point with any other returned item,
\* staged or placed.
C12_OverfullInputIsRestaged ==
  (AutoPackReturned /\ ExceedsContainer(packInput, container)) =>
    /\ \E i \in 1..Len(bestResult.items) : ~ bestResult.items[i].isValid
    /\ \A i \in 1..Len(bestResult.items) :
          ~ bestResult.items[i].isValid =>
             \E m \in 1..Len(items) :
                /\ items[m].id = bestResult.items[i].id
                /\ items[m].isValid
                /\ items[m].position[2] = 0
                /\ OutsideContainer(items[m], container)
                /\ \A n \in 1..Len(items) :
                      n # m => ~ Intersects(items[m].position, items[m].dimensions,
                                            items[n].position, items[n].dimensions)

\* an overfull input of which one item was placed and two were re-staged
C12_Witness ==
  /\ AutoPackReturned
  /\ ExceedsContainer(packInput, container)
  /\ bestResult.packedCount = 1
  /\ Len(items) = 3
  /\ Staged(items[2], container)
  /\ Staged(items[3], container)

\* the largest width among the staged items standing at depth z before index i
RECURSIVE RowDepth(_, _, _)
RowDepth(its, i, z) ==
  IF i = 0 THEN 0
  ELSE LET rest == RowDepth(its, i - 1, z)
       IN IF its[i].position[3] = z THEN Max2(rest, its[i].dimensions.width) ELSE rest

\* the shelf layout of the list out made from the list in: input order, valid,
\* on the floor, beside the container, rows filled left to right with spacing
\* 100 and wrapped at 15000, rows 100 apart behind the deepest item of the
\* row before, and no two items sharing an interior point
ShelfLayout(in, out, cont) ==
  /\ Len(out) = Len(in)
  /\ \A i \in 1..Len(out) :
        /\ out[i].id = in[i].id
        /\ out[i].dimensions = in[i].dimensions
        /\ out[i].isValid
        /\ out[i].position[2] = 0
        /\ out[i].position[3] >= cont.width + 1500
        /\ LET prevEnd == IF i = 1 THEN 0
                          ELSE out[i - 1].position[1] + out[i - 1].dimensions.length + 100
               prevZ == IF i = 1 THEN cont.width + 1500 ELSE out[i - 1].position[3]
           IN IF prevEnd + out[i].dimensions.length > 15000
              THEN /\ out[i].position[1] = 0
                   /\ out[i].position[3] = prevZ + RowDepth(out, i - 1, prevZ) + 100
              ELSE /\ out[i].position[1] = prevEnd
                   /\ out[i].position[3] = prevZ
  /\ \A i, j \in 1..Len(out) :
        i # j => ~ Intersects(out[i].position, out[i].dimensions,
                              out[j].position, out[j].dimensions)

\* C13 as stated: arrangeStaging returns the shelf layout, and no staged item
\* extends past x = 15000.
C13_StagingLayoutWithinLimit ==
  pc = "staged" =>
    /\ ShelfLayout(packInput, items, container)
    /\ \A i \in 1..Len(items) :
          items[i].position[1] + items[i].dimensions.length <= 15000

\* C13 amended: arrangeStaging returns the shelf layout; a staged item that is
\* at most 15000 long does not extend past x = 15000, and an item longer than
\* 15000 stands at x = 0, first of a new row, and extends past it.
C13_StagingLayout ==
  pc = "staged" =>
    /\ ShelfLayout(packInput, items, container)
    /\ \A i \in 1..Len(items) :
          IF items[i].dimensions.length <= 15000
          THEN items[i].position[1] + items[i].dimensions.length <= 15000
          ELSE /\ items[i].position[1] = 0
               /\ \A j \in 1..(i - 1) : items[j].position[3] < items[i].position[3]

\* three staged items: two of different widths in the first row, the wider
\* one first, and the third wrapped to a second row
C13_Witness ==
  /\ pc = "staged"
  /\ Len(items) = 3
  /\ items[2].position[3] = items[1].position[3]
  /\ items[2].position[1] > 0
  /\ items[1].dimensions.width > items[2].dimensions.width
  /\ items[3].position[1] = 0
  /\ items[3].position[3] = items[1].position[3] + items[1].dimensions.width + 100

\* on one axis, each interval's far end lies more than 1 beyond the other's
\* near end
ReachesPast(lo1, len1, lo2, len2) ==
  /\ (lo2 + len2) - lo1 > 1
  /\ (lo1 + len1) - lo2 > 1

ReachesPastOnAllAxes(a, b) ==
  /\ ReachesPast(a.position[1], a.dimensions.length, b.position[1], b.dimensions.length)
  /\ ReachesPast(a.position[2], a.dimensions.height, b.position[2], b.dimensions.height)
  /\ ReachesPast(a.position[3], a.dimensions.width, b.position[3], b.dimensions.width)

\* every extent of the item is more than 1 long
ThickerThanEpsilon(item) ==
  /\ item.dimensions.length > 1
  /\ item.dimensions.width > 1
  /\ item.dimensions.height > 1

SameRecords(a, b) ==
  /\ Len(a) = Len(b)
  /\ Cardinality(Ids(a)) = Len(a)
  /\ \A i \in 1..Len(a) : \E j \in 1..Len(b) : a[i] = b[j]

\* the finished trials returned what each returns when run on its own on the
\* list autoPack was given
TrialsRunAlone ==
  \A t \in 1..Len(results) :
     results[t] = runPackingTrial(packInput, container, battery[t].strategy,
                                  battery[t].seed)

\* C15: every trial starts from one free box spanning the whole container, an
\* empty output and the records of autoPack's input; while the battery runs
\* the caller's list is the list it passed; each trial's result is the one it
\* gives when run alone on that input; and after autoPack has returned its
\* input list is still the list the caller held.
C15_TrialsIndependentInputUntouched ==
  /\ pc = "trial" => items = packInput
  /\ (pc = "trial" /\ k = 1) =>
       /\ freeSpaces = << [x |-> 0, y |-> 0, z |-> 0, l |-> container.length,
                           h |-> container.height, w |-> container.width] >>
       /\ placedItems = <<>>
       /\ totalPackedVol = 0
       /\ SameRecords(itemsToPack, packInput)
       /\ TrialsRunAlone
  /\ AutoPackReturned =>
       /\ TrialsRunAlone
       /\ packInputSrc = "staging" =>
            packInput = arrangeStaging(createCargoGroups(manifest), container)

\* autoPack has returned after seven trials on three items, two trials
\* disagreeing on the result and the returned list differing from the input
C15_Witness ==
  /\ AutoPackReturned
  /\ Len(results) = Len(battery)
  /\ Len(packInput) = 3
  /\ \E t, u \in 1..Len(results) : results[t].packedVolume # results[u].packedVolume
  /\ items # packInput

\* the sum of the volumes of the valid items of the list
RECURSIVE ValidVolume(_, _)
ValidVolume(its, i) ==
  IF i > Len(its) THEN 0
  ELSE (IF its[i].isValid THEN Volume(its[i].dimensions) ELSE 0) + ValidVolume(its, i + 1)

\* the output of a trial on the list in: every input item once, by id, and
\* the count and the volume of the valid ones
TrialOutputComplete(result, in) ==
  /\ Len(result.items) = Len(in)
  /\ Ids(result.items) = Ids(in)
  /\ Cardinality(Ids(result.items)) = Len(result.items)
  /\ result.packedCount = Cardinality({ i \in 1..Len(result.items) : result.items[i].isValid })
  /\ result.packedVolume = ValidVolume(result.items, 1)

\* a trial has handled the items before index k, one output record each
TrialInStep ==
  pc = "trial" =>
    /\ k \in 1..(Len(itemsToPack) + 1)
    /\ Len(itemsToPack) = Len(packInput)
    /\ Len(placedItems) = k - 1
    /\ \A i \in 1..Len(placedItems) : placedItems[i].id = itemsToPack[i].id

\* a step of a running trial: one more item handled, or, once every item has
\* been handled, the trial's return
TrialAdvances ==
  pc = "trial" =>
    \/ /\ k <= Len(itemsToPack)
       /\ pc' = "trial"
       /\ trial' = trial
       /\ itemsToPack' = itemsToPack
       /\ k' = k + 1
       /\ Len(placedItems') = Len(placedItems) + 1
    \/ /\ k > Len(itemsToPack)
       /\ Len(results') = Len(results) + 1

\* C16: a trial handles the items one by one, each once: every step of a
\* trial moves to the next item until none is left, and then the trial
\* returns, so that it ends after as many steps as there are items.  Its
\* output holds every input item (by id) exactly once, valid or invalid, with
\* packedCount the number of valid items and packedVolume the sum of their
\* volumes.
C16_TrialHandlesEachItemOnce ==
  /\ [](TrialInStep /\ \A t \in 1..Len(results) : TrialOutputComplete(results[t], packInput))
  /\ [][TrialAdvances]_vars

\* a trial has returned an output of three items, two placed and one failed
C16_Witness ==
  /\ pc = "trial"
  /\ \E t \in 1..Len(results) :
        /\ Len(results[t].items) = 3
        /\ results[t].packedCount = 2
        /\ \E i \in 1..3 : ~ results[t].items[i].isValid

\* the unit cells of a box, each named by its corner
Cells(b) ==
  { <<i, j, m>> : i \in b.x..(b.x + b.l - 1), j \in b.y..(b.y + b.h - 1),
                  m \in b.z..(b.z + b.w - 1) }

\* the cells directly below the box: under its footprint, lower than its floor
CellsBelow(b) ==
  { <<i, j, m>> : i \in b.x..(b.x + b.l - 1), j \in 0..(b.y - 1),
                  m \in b.z..(b.z + b.w - 1) }

\* the box, if the extent named last is positive
IfPositive(b, extent) == IF extent > 0 THEN << b >> ELSE <<>>

\* the fragments of F around P: right and left of P along x, above P along y,
\* in front of and behind P along z, each with F's extents on the other axes
FragmentsAround(F, P) ==
  IfPositive(Box(P.x + P.l, F.y, F.z, (F.x + F.l) - (P.x + P.l), F.h, F.w),
             (F.x + F.l) - (P.x + P.l))
  \o IfPositive(Box(F.x, F.y, F.z, P.x - F.x, F.h, F.w), P.x - F.x)
  \o IfPositive(Box(F.x, P.y + P.h, F.z, F.l, (F.y + F.h) - (P.y + P.h), F.w),
                (F.y + F.h) - (P.y + P.h))
  \o IfPositive(Box(F.x, F.y, P.z + P.w, F.l, F.h, (F.z + F.w) - (P.z + P.w)),
                (F.z + F.w) - (P.z + P.w))
  \o IfPositive(Box(F.x, F.y, F.z, F.l, F.h, P.z - F.z), P.z - F.z)

\* what the split makes of the free boxes from index i on
RECURSIVE SplitOutcome(_, _, _)
SplitOutcome(spaces, P, i) ==
  IF i > Len(spaces) THEN <<>>
  ELSE (IF Cells(spaces[i]) \cap Cells(P) # {}
        THEN FragmentsAround(spaces[i], P)
        ELSE << spaces[i] >>) \o SplitOutcome(spaces, P, i + 1)

\* the fragments lie inside F, avoid P and the cells below it, and cover the
\* rest of F
FragmentsTileAround(F, P) ==
  LET frags == FragmentsAround(F, P)
  IN /\ \A n \in 1..Len(frags) :
           /\ frags[n].l > 0 /\ frags[n].h > 0 /\ frags[n].w > 0
           /\ Cells(frags[n]) \subseteq Cells(F)
           /\ Cells(frags[n]) \cap Cells(P) = {}
           /\ Cells(frags[n]) \cap CellsBelow(P) = {}
     /\ UNION { Cells(frags[n]) : n \in 1..Len(frags) }
          = (Cells(F) \ Cells(P)) \ CellsBelow(P)

\* C17: the split replaces every free box that intersects the placed box by
\* its fragments right, left, above, in front of and behind the placed box,
\* each only if its extent is positive, and passes the other free boxes
\* through unchanged; the fragments lie inside the free box, do not intersect
\* the placed box, none lies below it, and they cover every point of the free
\* box outside the placed box except those directly below it.
C17_SplitFragments ==
  pc = "split done" =>
    /\ callOut = SplitOutcome(callIn.freeSpaces, callIn.placedBox, 1)
    /\ \A i \in 1..Len(callIn.freeSpaces) :
          Cells(callIn.freeSpaces[i]) \cap Cells(callIn.placedBox) # {} =>
             FragmentsTileAround(callIn.freeSpaces[i], callIn.placedBox)

\* a placed box strictly inside the first free box, above its floor, which
\* gives five fragments and leaves the cell below uncovered, and a second free
\* box that passes through
C17_Witness ==
  /\ pc = "split done"
  /\ callIn.placedBox = Box(1, 1, 1, 1, 1, 1)
  /\ callIn.freeSpaces = << Box(0, 0, 0, MaxCoord, MaxCoord, MaxCoord),
                            Box(MaxCoord - 1, 0, 0, 1, MaxCoord, MaxCoord) >>
  /\ Len(callOut) = 6
  /\ callOut[6] = callIn.freeSpaces[2]

\* the box has no extent below 50
AtLeastFifty(b) == b.l >= 50 /\ b.h >= 50 /\ b.w >= 50

\* inner lies within outer, faces included
Within(inner, outer) ==
  /\ outer.x <= inner.x /\ inner.x + inner.l <= outer.x + outer.l
  /\ outer.y <= inner.y /\ inner.y + inner.h <= outer.y + outer.h
  /\ outer.z <= inner.z /\ inner.z + inner.w <= outer.z + outer.w

\* the places of the list whose box cleanup keeps
KeptPlaces(spaces) ==
  { i \in 1..Len(spaces) :
      /\ AtLeastFifty(spaces[i])
      /\ ~ \E j \in 1..Len(spaces) :
              j # i /\ AtLeastFifty(spaces[j]) /\ Within(spaces[i], spaces[j]) }

\* how many of the places hold the box b
Count(spaces, places, b) == Cardinality({ i \in places : spaces[i] = b })

\* C18: cleanup returns exactly the input boxes that have every extent >= 50
\* and are not contained, faces included, in another box of the list with
\* every extent >= 50; and in a trial, where it runs after every placement,
\* no free box has an extent below 50 and no free box is contained in another.
C18_CleanupKeepsMaximalBoxes ==
  /\ pc = "cleaned" =>
       /\ Len(callOut) = Cardinality(KeptPlaces(callIn))
       /\ \A b \in CleanupBoxes :
             Count(callOut, 1..Len(callOut), b) = Count(callIn, KeptPlaces(callIn), b)
  /\ pc = "trial" =>
       \A i \in 1..Len(freeSpaces) :
          /\ AtLeastFifty(freeSpaces[i])
          /\ \A j \in 1..Len(freeSpaces) :
                j # i => ~ Within(freeSpaces[i], freeSpaces[j])

\* cleanup was given a sliver, a box with an extent of exactly 50 lying
\* inside another, and that other box, and kept the last only
C18_Witness ==
  /\ pc = "cleaned"
  /\ callIn = << Box(0, 0, 0, 49, 1000, 1000), Box(100, 100, 100, 50, 50, 50),
                 Box(0, 0, 0, 600, 1000, 1000) >>
  /\ callOut = << Box(0, 0, 0, 600, 1000, 1000) >>

\* the orientations (TRUE = turned by 90 degrees) in which the item is tried
\* in the space and fits it
FittingOrientations(item, space) ==
  { rot \in BOOLEAN :
      /\ item.dimensions.height <= space.h
      /\ IF rot
         THEN /\ item.dimensions.length # item.dimensions.width
              /\ item.dimensions.width <= space.l
              /\ item.dimensions.length <= space.w
         ELSE /\ item.dimensions.length <= space.l
              /\ item.dimensions.width <= space.w }

\* the candidates of an item: a place of the list and an orientation
Candidates(item, spaces) ==
  { c \in (1..Len(spaces)) \X BOOLEAN : c[2] \in FittingOrientations(item, spaces[c[1]]) }

\* c is tried before d
TriedBefore(c, d) == c[1] < d[1] \/ (c[1] = d[1] /\ ~ c[2] /\ d[2])

\* c has the lowest score, and is the first tried of those that have it
Wins(c, item, spaces) ==
  \A d \in Candidates(item, spaces) \ {c} :
     \/ spaceScore(spaces[c[1]]) < spaceScore(spaces[d[1]])
     \/ spaceScore(spaces[c[1]]) = spaceScore(spaces[d[1]]) /\ TriedBefore(c, d)

\* the item as it is placed when candidate c wins
PlacedAs(placed, c, item, spaces) ==
  /\ placed.isValid
  /\ placed.position = <<spaces[c[1]].x, spaces[c[1]].y, spaces[c[1]].z>>
  /\ placed.dimensions.height = item.dimensions.height
  /\ placed.dimensions.length =
       (IF c[2] THEN item.dimensions.width ELSE item.dimensions.length)
  /\ placed.dimensions.width =
       (IF c[2] THEN item.dimensions.length ELSE item.dimensions.width)

\* two candidates of different spaces have the same score
ScoreTie(item, spaces) ==
  \E c, d \in Candidates(item, spaces) :
     c[1] # d[1] /\ spaceScore(spaces[c[1]]) = spaceScore(spaces[d[1]])

\* C19: an orientation is a candidate iff the item's extents fit the space
\* (the height never turns, the turned orientation is tried only when length
\* and width differ); the candidate of lowest score wins, the first tried on
\* a tie; the item takes the winning box's origin and has length and width
\* exchanged iff the turned orientation won.
C19_LowestScoreFirstTriedWins ==
  (pc = "placed" /\ Candidates(callIn.item, callIn.st.freeSpaces) # {}) =>
    \E c \in Candidates(callIn.item, callIn.st.freeSpaces) :
       /\ Wins(c, callIn.item, callIn.st.freeSpaces)
       /\ Len(callOut.placedItems) = 1
       /\ PlacedAs(callOut.placedItems[1], c, callIn.item, callIn.st.freeSpaces)

\* a 400 x 200 item met two spaces of equal score, the first of which takes
\* it only turned, and was placed turned at the first one's origin
C19_Witness ==
  /\ pc = "placed"
  /\ ScoreTie(callIn.item, callIn.st.freeSpaces)
  /\ callIn.item.dimensions.length = 400
  /\ callIn.st.freeSpaces[1] = Box(1000, 0, 0, 200, 300, 400)
  /\ callOut.placedItems[1].position = <<1000, 0, 0>>
  /\ callOut.placedItems[1].dimensions.length = 200
  /\ callOut.placedItems[1].dimensions.width = 400

\* the box can hold the item in one of the two orientations
CanHold(space, item) ==
  /\ item.dimensions.height <= space.h
  /\ \/ item.dimensions.length <= space.l /\ item.dimensions.width <= space.w
     \/ item.dimensions.width <= space.l /\ item.dimensions.length <= space.w

\* a pass of the item loop of a trial
ItemStep == pc = "trial" /\ k' = k + 1

\* the pass marks its item invalid exactly when no free box can hold it, and
\* then leaves the item at a negative height, the free spaces and the packed
\* volume as they were, and the trial running
FailureLeavesTrialAsItWas ==
  ItemStep =>
    LET item == itemsToPack[k]
        out == placedItems'[Len(placedItems')]
        noRoom == \A i \in 1..Len(freeSpaces) : ~ CanHold(freeSpaces[i], item)
    IN /\ Len(placedItems') = Len(placedItems) + 1
       /\ out.id = item.id
       /\ (~ out.isValid) <=> noRoom
       /\ noRoom =>
            /\ out.position[2] < 0
            /\ freeSpaces' = freeSpaces
            /\ totalPackedVol' = totalPackedVol
            /\ pc' = "trial"

\* C20: an item is marked invalid in a trial exactly when no box of the
\* current free-space list can hold it in either orientation; it then gets a
\* position of negative height, the free-space list and the packed volume stay
\* as they were, and the items after it are still tried.
C20_FailureLeavesTrialAsItWas == [][FailureLeavesTrialAsItWas]_vars

\* a trial in which an item was marked invalid and the item after it placed
C20_Witness ==
  /\ pc = "trial"
  /\ \E i \in 1..(Len(placedItems) - 1) :
        /\ ~ placedItems[i].isValid
        /\ placedItems[i].position[2] < 0
        /\ placedItems[i + 1].isValid

Footprint(item) == item.dimensions.length * item.dimensions.width

LongestSide(item) ==
  Max3(item.dimensions.length, item.dimensions.width, item.dimensions.height)

\* a may stand before b under the strategy
MayPrecede(a, b, strategy) ==
  LET va == Volume(a.dimensions)
      vb == Volume(b.dimensions)
  IN CASE strategy = "VOLUME" -> va >= vb
       [] strategy = "FOOTPRINT" ->
            Footprint(a) > Footprint(b) \/ (Footprint(a) = Footprint(b) /\ va >= vb)
       [] strategy = "MAX_DIM" ->
            LongestSide(a) > LongestSide(b) \/ (LongestSide(a) = LongestSide(b) /\ va >= vb)
       [] OTHER -> TRUE

\* the ordering scores of a and b are less than 0.1 apart
ScoresNear(a, b, strategy, seed) ==
  LET va == Volume(a.dimensions)
      vb == Volume(b.dimensions)
      wa == WeightedVolume(a, seed)
      wb == WeightedVolume(b, seed)
  IN CASE strategy = "VOLUME" -> va = vb
       [] strategy = "FOOTPRINT" -> Footprint(a) = Footprint(b) /\ va = vb
       [] strategy = "MAX_DIM" -> LongestSide(a) = LongestSide(b) /\ va = vb
       [] OTHER -> /\ Abs(wb[1] - wa[1]) <= 2000
                   /\ Abs(1000 * (wb[1] - wa[1]) + (wb[2] - wa[2])) < 100

\* the identifiers of a list, in its order
IdsOf(its) == [i \in 1..Len(its) |-> its[i].id]

\* the list with every footprint turned: volumes, heights and identifiers stay
Turned(its) ==
  [i \in 1..Len(its) |->
     [its[i] EXCEPT !.dimensions.length = its[i].dimensions.width,
                    !.dimensions.width = its[i].dimensions.length]]

\* C21: a trial attempts the items by non-increasing volume (VOLUME), by
\* non-increasing footprint then volume (FOOTPRINT), by non-increasing longest
\* side then volume (MAX_DIM); under every strategy two items whose ordering
\* scores are less than 0.1 apart stand by height descending; the order holds
\* every input item once, and under RANDOM_WEIGHTED it depends on an item
\* only through its volume and identifier length (and its height).
C21_SortOrder ==
  pc = "sorted" =>
    /\ Len(callOut) = Len(callIn.items)
    /\ \A id \in 1..Len(callIn.items) :
          \E i \in 1..Len(callOut) : callOut[i] = callIn.items[id]
    /\ \A i, j \in 1..Len(callOut) :
          i < j =>
            /\ MayPrecede(callOut[i], callOut[j], callIn.strategy)
            /\ ScoresNear(callOut[i], callOut[j], callIn.strategy, callIn.seed) =>
                 callOut[i].dimensions.height >= callOut[j].dimensions.height
    /\ callIn.strategy = "RANDOM_WEIGHTED" =>
         IdsOf(sortItems(Turned(callIn.items), callIn.strategy, callIn.seed))
           = IdsOf(callOut)

\* under MAX_DIM, two items of equal longest side and equal volume came in
\* with the lower one first and left with the higher one first
C21_Witness ==
  /\ pc = "sorted"
  /\ callIn.strategy = "MAX_DIM"
  /\ Len(callIn.items) = 2
  /\ callIn.items[1].dimensions = [length |-> 300, width |-> 100, height |-> 200]
  /\ callIn.items[2].dimensions = [length |-> 200, width |-> 100, height |-> 300]
  /\ IdsOf(callOut) = <<2, 1>>

\* the extent of a box along axis a (1 = x, 2 = y, 3 = z)
ExtentAlong(dims, a) ==
  CASE a = 1 -> dims.length [] a = 2 -> dims.height [] a = 3 -> dims.width

\* the coordinates on axis a that getSnappingPosition can snap an item of
\* extents dims to because of the neighbour other
AlignmentTargets(other, dims, a) ==
  LET o == other.position[a]
      far == o + ExtentAlong(other.dimensions, a)
      own == ExtentAlong(dims, a)
  IN IF a = 2 THEN {far, o - own}
     ELSE {far, o - own, o, far - own}

\* coordinate v is within the threshold of one of the neighbour's targets
NearTarget(v, other, dims, a, threshold) ==
  \E t \in AlignmentTargets(other, dims, a) : Abs(v - t) < threshold

\* the neighbours of the call, the dragged item left out
Neighbours == SelectSeq(snapIn.others, LAMBDA o : o.id # snapIn.id)

\* the places of Neighbours whose targets on axis a the candidate is near to
NearPlaces(a) ==
  { j \in 1..Len(Neighbours) :
      NearTarget(snapIn.currentPos[a], Neighbours[j], snapIn.dims, a, snapIn.threshold) }

LastOf(S) == CHOOSE j \in S : \A i \in S : i <= j

\* the coordinates that the snap to 0 and all neighbours but the last leave
BeforeLast ==
  getSnappingPosition(snapIn.currentPos, snapIn.dims,
                      SubSeq(Neighbours, 1, Len(Neighbours) - 1),
                      snapIn.id, snapIn.threshold)

\* C22 as stated: whenever the candidate coordinate on an axis is within the
\* threshold of a target of two or more neighbours, the returned coordinate is
\* an alignment to the last of these neighbours in the order of others.
C22_LastNearNeighbourWins ==
  pc = "snapped" =>
    \A a \in 1..3 :
       Cardinality(NearPlaces(a)) >= 2 =>
         snapOut[a] \in AlignmentTargets(Neighbours[LastOf(NearPlaces(a))], snapIn.dims, a)

\* C22, amended: the neighbours are applied in the order of others, each to
\* the coordinate that the snap to 0 and the neighbours before it have left;
\* whenever that coordinate is within the threshold of a target of the last
\* neighbour, the returned coordinate is an alignment to the last neighbour;
\* the item whose id is the dragged item's is never used as a neighbour.
C22_LastMatchOnRunningCoordinateWins ==
  pc = "snapped" =>
    /\ snapOut = getSnappingPosition(snapIn.currentPos, snapIn.dims, Neighbours,
                                     snapIn.id, snapIn.threshold)
    /\ Len(Neighbours) >= 1 =>
         \A a \in 1..3 :
            IF NearTarget(BeforeLast[a], Neighbours[Len(Neighbours)], snapIn.dims,
                          a, snapIn.threshold)
            THEN snapOut[a] \in AlignmentTargets(Neighbours[Len(Neighbours)],
                                                 snapIn.dims, a)
            ELSE snapOut[a] = BeforeLast[a]

\* the distance from v to the nearest target of the neighbour
Nearest(v, other, dims, a) ==
  CHOOSE d \in { Abs(v - t) : t \in AlignmentTargets(other, dims, a) } :
     \A t \in AlignmentTargets(other, dims, a) : d <= Abs(v - t)

\* the candidate x was near targets of two neighbours, nearer to the first
\* one's, and the call returned an alignment to the second that is none to
\* the first
C22_Witness ==
  /\ pc = "snapped"
  /\ Len(Neighbours) = 2
  /\ NearPlaces(1) = {1, 2}
  /\ Nearest(snapIn.currentPos[1], Neighbours[1], snapIn.dims, 1)
       < Nearest(snapIn.currentPos[1], Neighbours[2], snapIn.dims, 1)
  /\ snapOut[1] \in AlignmentTargets(Neighbours[2], snapIn.dims, 1)
  /\ snapOut[1] \notin AlignmentTargets(Neighbours[1], snapIn.dims, 1)

\* the four alignments of the sentence on axis a: the neighbour's far face,
\* far face on near face, near on near, far on far
FourAlignments(other, dims, a) ==
  LET o == other.position[a]
      far == o + ExtentAlong(other.dimensions, a)
      own == ExtentAlong(dims, a)
  IN {far, o - own, o, far - own}

\* a position with the coordinates off axis a replaced by v
OnlyAxis(pos, a, v) == [b \in 1..3 |-> IF b = a THEN pos[b] ELSE v]

\* the call's result when every coordinate off axis a is another one
ElsewhereOffAxis(a) ==
  getSnappingPosition(OnlyAxis(snapIn.currentPos, a, 5000), snapIn.dims,
                      [j \in 1..Len(snapIn.others) |->
                         [snapIn.others[j] EXCEPT
                            !.position = OnlyAxis(snapIn.others[j].position, a, 9000)]],
                      snapIn.id, snapIn.threshold)

\* the candidate coordinate after the snap to 0
AfterZeroSnap(a) ==
  IF Abs(snapIn.currentPos[a]) < snapIn.threshold THEN 0 ELSE snapIn.currentPos[a]

\* the result on one axis does not depend on the coordinates on the others
AxesIndependent == \A a \in 1..3 : snapOut[a] = ElsewhereOffAxis(a)[a]

\* with one neighbour, the coordinate on axis a goes to one of the given
\* alignments when one of them is within the threshold, and else stays
SnapsAmong(Alignments(_, _, _)) ==
  Len(Neighbours) = 1 =>
    \A a \in 1..3 :
       IF \E t \in Alignments(Neighbours[1], snapIn.dims, a) :
             Abs(AfterZeroSnap(a) - t) < snapIn.threshold
       THEN snapOut[a] \in Alignments(Neighbours[1], snapIn.dims, a)
       ELSE snapOut[a] = AfterZeroSnap(a)

\* C23 as stated: snap works axis by axis and offers on each of x, y and z
\* the snap to 0 and the four alignments to a neighbour (far face, far face
\* on near face, near on near, far on far) when the distance is below the
\* threshold; no axis depends on the coordinates of another.
C23_SameAlignmentsOnEveryAxis ==
  pc = "snapped" =>
    /\ AxesIndependent
    /\ Len(Neighbours) = 0 => \A a \in 1..3 : snapOut[a] = AfterZeroSnap(a)
    /\ SnapsAmong(FourAlignments)

\* C23, amended: snap works axis by axis; x and z offer the snap to 0 and the
\* four alignments, y offers the snap to 0, the neighbour's top and the
\* position that puts the item's top on the neighbour's bottom, and no
\* same-face alignment; no axis depends on the coordinates of another.
C23_SameFaceAlignmentOnXAndZOnly ==
  pc = "snapped" =>
    /\ AxesIndependent
    /\ Len(Neighbours) = 0 => \A a \in 1..3 : snapOut[a] = AfterZeroSnap(a)
    /\ SnapsAmong(AlignmentTargets)
    /\ \A a \in {1, 3} :
          AlignmentTargets(snapIn.others[1], snapIn.dims, a)
            = FourAlignments(snapIn.others[1], snapIn.dims, a)

\* a 400 x 400 x 400 item at (460, 460, 460) beside one neighbour of 800 a
\* side at the origin: x and z went to 400, far face on far face, y stayed
C23_Witness ==
  /\ pc = "snapped"
  /\ Len(Neighbours) = 1
  /\ Neighbours[1].dimensions = [length |-> 800, width |-> 800, height |-> 800]
  /\ snapIn.currentPos = <<460, 460, 460>>
  /\ snapIn.dims = [length |-> 400, width |-> 400, height |-> 400]
  /\ snapOut = <<400, 460, 400>>

\* the packed volume v is no more than the volume of the container
WithinCapacity(v, cont) ==
  LET cap == VolumeSplit(cont)
  IN (v \div 1000) < cap[1] \/ ((v \div 1000) = cap[1] /\ (v % 1000) <= cap[2])

\* the item's box lies in the container, face by face
LiesInside(item, cont) ==
  /\ 0 <= item.position[1]
  /\ item.position[1] + item.dimensions.length <= cont.length
  /\ 0 <= item.position[2]
  /\ item.position[2] + item.dimensions.height <= cont.height
  /\ 0 <= item.position[3]
  /\ item.position[3] + item.dimensions.width <= cont.width

\* C24: every item that a trial places lies entirely inside the container,
\* with the footprint it is stored with, and the packed volume of a trial is
\* never more than the volume of the container.
C24_PlacedItemsInsideContainer ==
  /\ pc = "trial" =>
       /\ \A i \in 1..Len(placedItems) :
             placedItems[i].isValid => LiesInside(placedItems[i], container)
       /\ WithinCapacity(totalPackedVol, container)
  /\ \A t \in 1..Len(results) :
        /\ \A i \in 1..Len(results[t].items) :
              results[t].items[i].isValid => LiesInside(results[t].items[i], container)
        /\ WithinCapacity(results[t].packedVolume, container)

\* a finished trial that placed two items, one of them turned and away from
\* the origin
C24_Witness ==
  /\ pc = "trial"
  /\ k > Len(itemsToPack)
  /\ Len(Filter(placedItems, IsValid)) >= 2
  /\ \E i \in 1..Len(placedItems) :
        /\ placedItems[i].isValid
        /\ placedItems[i].position # <<0, 0, 0>>
        /\ placedItems[i].dimensions.length = manifest[placedItems[i].id].width
        /\ placedItems[i].dimensions.length # manifest[placedItems[i].id].length

\* Statistics of the App

\* the filter of stats and of exportStandardPDF
loadedItems(its, cont) ==
  SelectSeq(its, LAMBDA i : i.position[2] >= 0 /\ i.position[1] < cont.length)

\* stats: the counts, and the packed volume as <<thousands, units>>
stats(its, cont) ==
  [loadedCount |-> Len(loadedItems(its, cont)),
   stagedCount |-> Len(its) - Len(loadedItems(its, cont)),
   packedVol |-> VolumeSum(loadedItems(its, cont), 1)]

\* the reported utilization is at most 100 %
UtilizationAtMostFull ==
  LET packed == stats(items, container).packedVol
      cap == VolumeSplit(container)
  IN packed[1] < cap[1] \/ (packed[1] = cap[1] /\ packed[2] <= cap[2])

\* C25: between the operations (reset or import, autoPack, drags) the items
\* that the statistics count as loaded are exactly the items lying inside the
\* container, no staged item is counted as loaded, loadedCount and
\* stagedCount are the numbers of items inside and outside the container,
\* and the reported utilization is at most 100 %.
C25_LoadedItemsAreInside ==
  pc = "idle" =>
    /\ \A i \in 1..Len(items) :
          (items[i].position[2] >= 0 /\ items[i].position[1] < container.length)
            <=> LiesInside(items[i], container)
    /\ stats(items, container).loadedCount
         = Cardinality({ i \in 1..Len(items) : LiesInside(items[i], container) })
    /\ stats(items, container).stagedCount
         = Cardinality({ i \in 1..Len(items) : ~ LiesInside(items[i], container) })
    /\ UtilizationAtMostFull

\* the box that the item fills as it is stored
FilledBy(item) ==
  [x |-> item.position[1], y |-> item.position[2], z |-> item.position[3],
   l |-> item.dimensions.length, h |-> item.dimensions.height,
   w |-> item.dimensions.width]

\* box b lies within some box of the list
Covered(b, spaces) == \E j \in 1..Len(spaces) : Within(b, spaces[j])

\* the boxes that the split makes of the free box fs around the placed box
SplitOff(fs, placedBox) ==
  LET made == splitSpace(fs, placedBox)
  IN { made[n] : n \in 1..Len(made) }

\* a pass of the item loop that places its item keeps, for every box of the
\* split with no extent below 50, a free box that the box lies within, and
\* the split makes no such box out of two free boxes
PlacementKeepsFreeSpace ==
  (ItemStep /\ placedItems'[Len(placedItems')].isValid) =>
    \A i \in 1..Len(freeSpaces) :
       \A b \in SplitOff(freeSpaces[i], FilledBy(placedItems'[Len(placedItems')])) :
          AtLeastFifty(b) =>
            /\ Covered(b, freeSpaces')
            /\ \A j \in 1..Len(freeSpaces) :
                  j # i => b \notin SplitOff(freeSpaces[j],
                                            FilledBy(placedItems'[Len(placedItems')]))

\* C26: in a trial the pruning of contained boxes loses no free space: after
\* each split and cleanup every box that the split produced, fragment or box
\* passed through, with all three extents >= 50 lies within a box of the new
\* free-space list; two equal boxes never remove each other.
C26_PruningLosesNoFreeSpace == [][PlacementKeepsFreeSpace]_vars

\* the free-space list of the trial before its latest item
FreeSpacesBeforeLatest ==
  packFrom(SubSeq(itemsToPack, 1, k - 2), 1,
           [freeSpaces |-> initialFreeSpaces(container),
            placedItems |-> <<>>, totalPackedVol |-> 0]).freeSpaces

\* a trial whose latest placement split the free space into boxes of which
\* one, with no extent below 50, was pruned and lies within a kept box
C26_Witness ==
  /\ pc = "trial"
  /\ k >= 3
  /\ placedItems[k - 1].isValid
  /\ LET split == splitSpaces(FreeSpacesBeforeLatest, FilledBy(placedItems[k - 1]), 1)
     IN \E n \in 1..Len(split) :
           /\ AtLeastFifty(split[n])
           /\ \A j \in 1..Len(freeSpaces) : freeSpaces[j] # split[n]
           /\ Covered(split[n], freeSpaces)

====
